---- MODULE Spec2Model ----
(***************************************************************************)
(* A model of RAMCloud's FastTransport (src/src/FastTransport.cc): the     *)
(* InboundMessage / OutboundMessage fragment machinery, the client and     *)
(* server sessions with their channels, the dispatcher and the timers.     *)
(*                                                                         *)
(* Handlers of the C++ code are operators over records (one record per     *)
(* C++ object); the actions of a specification apply them to the state.    *)
(***************************************************************************)
EXTENDS Integers, Sequences, FiniteSets, TLC

(***************************************************************************)
(* Protocol constants.  FastTransport.h names them; the protocol does not  *)
(* fix their values, and the model uses small ones.                        *)
(***************************************************************************)
WINDOW_SIZE == 3
MAX_STAGING_FRAGMENTS == 2
REQ_ACK_AFTER == 2
TIMEOUT_NS == 1
TIMEOUTS_UNTIL_ABORTING == 2
NUM_CHANNELS_PER_SESSION == 1
MAX_NUM_CHANNELS_PER_SESSION == 2

\* Bounds of the InboundMessage specification (SpecIn).
InMaxFrags == 5
InMaxDeliveries == 5

(***************************************************************************)
(* Payloads.  A fragment's payload is <<kind, id, fragNumber>>: kind 0 is  *)
(* a request of client RPC id, kind 1 the reply to it.  NoPayload is the   *)
(* NULL char* of an empty ring slot.                                       *)
(***************************************************************************)
NoPayload == <<>>
Payload(kind, id, frag) == <<kind, id, frag>>
\* The whole message (kind, id) cut in n fragments, as a buffer holds it.
Message(kind, id, n) == [i \in 1..n |-> Payload(kind, id, i - 1)]

RECURSIVE Pow2(_)
Pow2(n) == IF n = 0 THEN 1 ELSE 2 * Pow2(n - 1)

(***************************************************************************)
(* Ring<T, length>: slot i of the C++ ring is element i + 1 here.          *)
(***************************************************************************)
RingClear(length, empty) == [i \in 1..length |-> empty]
RingAdvance(ring, distance, empty) ==
    [i \in 1..Len(ring) |->
        IF i + distance <= Len(ring) THEN ring[i + distance] ELSE empty]

(***************************************************************************)
(* InboundMessage                                                          *)
(***************************************************************************)
NewInboundMessage(useTimer) ==
    [totalFrags |-> 0, firstMissingFrag |-> 0,
     dataStagingRing |-> RingClear(MAX_STAGING_FRAGMENTS, NoPayload),
     when |-> 0, numTimeouts |-> 0, useTimer |-> useTimer]

InboundClear(m) ==
    [m EXCEPT !.totalFrags = 0, !.firstMissingFrag = 0,
              !.dataStagingRing = RingClear(MAX_STAGING_FRAGMENTS, NoPayload),
              !.numTimeouts = 0,
              !.when = IF m.useTimer THEN 0 ELSE @]

InboundInit(m, totalFrags, now) ==
    [InboundClear(m) EXCEPT !.totalFrags = totalFrags,
                            !.when = IF m.useTimer THEN now + TIMEOUT_NS ELSE @]

\* The vector with the bit of ring slot i at position i + 1.
RECURSIVE StagingVectorShifted(_, _)
StagingVectorShifted(ring, i) ==
    IF i >= Len(ring) THEN 0
    ELSE (IF ring[i + 1] # NoPayload THEN Pow2(i + 1) ELSE 0)
         + StagingVectorShifted(ring, i + 1)

\* The AckResponse sendAck() builds: bit i of stagingVector is set when ring
\* slot i holds a payload.
RECURSIVE StagingVector(_, _)
StagingVector(ring, i) ==
    IF i >= Len(ring) THEN 0
    ELSE (IF ring[i + 1] # NoPayload THEN Pow2(i) ELSE 0) + StagingVector(ring, i + 1)

\* An AckResponse that reports firstMissingFrag alone.
InboundAckNoVector(m) ==
    [firstMissingFrag |-> m.firstMissingFrag, stagingVector |-> 0]

InboundAck(m) ==
    [firstMissingFrag |-> m.firstMissingFrag,
     stagingVector |-> StagingVector(m.dataStagingRing, 0)]

\* DrainStaging without the slide that follows the empty slot.
RECURSIVE DrainStagingBroken(_, _, _)
DrainStagingBroken(ring, fmf, appended) ==
    LET payload == ring[1]
        slid == RingAdvance(ring, 1, NoPayload)
    IN  IF payload = NoPayload
        THEN [ring |-> ring, fmf |-> fmf, appended |-> appended]
        ELSE DrainStagingBroken(slid, fmf + 1, Append(appended, payload))

\* The while (true) loop of processReceivedData: append what is staged in
\* slot 0 and slide, until slot 0 is empty (the ring slides once more then).
RECURSIVE DrainStaging(_, _, _)
DrainStaging(ring, fmf, appended) ==
    LET payload == ring[1]
        slid == RingAdvance(ring, 1, NoPayload)
    IN  IF payload = NoPayload
        THEN [ring |-> slid, fmf |-> fmf, appended |-> appended]
        ELSE DrainStaging(slid, fmf + 1, Append(appended, payload))

\* Staging that wraps a fragment too far ahead around the ring.
InboundStageWrap(m, pkt) ==
    LET i == (pkt.fragNumber - m.firstMissingFrag - 1) % MAX_STAGING_FRAGMENTS
    IN  IF m.dataStagingRing[i + 1] = NoPayload
        THEN [ring |-> [m.dataStagingRing EXCEPT ![i + 1] = pkt.payload],
              fmf |-> m.firstMissingFrag, appended |-> <<>>]
        ELSE [ring |-> m.dataStagingRing, fmf |-> m.firstMissingFrag,
              appended |-> <<>>]

\* header->fragNumber > firstMissingFrag: stage the fragment in ring slot
\* fragNumber - firstMissingFrag - 1, unless the gap is too big or the slot is
\* taken.
InboundStage(m, pkt) ==
    IF pkt.fragNumber - m.firstMissingFrag > MAX_STAGING_FRAGMENTS
    THEN [ring |-> m.dataStagingRing, fmf |-> m.firstMissingFrag, appended |-> <<>>]
    ELSE LET i == pkt.fragNumber - m.firstMissingFrag - 1
         IN  IF m.dataStagingRing[i + 1] = NoPayload
             THEN [ring |-> [m.dataStagingRing EXCEPT ![i + 1] = pkt.payload],
                   fmf |-> m.firstMissingFrag, appended |-> <<>>]
             ELSE [ring |-> m.dataStagingRing, fmf |-> m.firstMissingFrag,
                   appended |-> <<>>]

\* InboundAccept with "fragNumber <= firstMissingFrag" for "==".
InboundAcceptStale(m, pkt) ==
    IF pkt.fragNumber <= m.firstMissingFrag
    THEN DrainStaging(m.dataStagingRing, m.firstMissingFrag + 1, <<pkt.payload>>)
    ELSE InboundStage(m, pkt)

\* The three-way branch on header->fragNumber.
InboundAccept(m, pkt) ==
    IF pkt.fragNumber = m.firstMissingFrag
    THEN DrainStaging(m.dataStagingRing, m.firstMissingFrag + 1, <<pkt.payload>>)
    ELSE IF pkt.fragNumber > m.firstMissingFrag
    THEN InboundStage(m, pkt)
    ELSE [ring |-> m.dataStagingRing, fmf |-> m.firstMissingFrag, appended |-> <<>>]

\* processReceivedData that acknowledges every fragment, asked or not.
InboundProcessReceivedDataAckAll(m, pkt, now) ==
    IF pkt.totalFrags # m.totalFrags
    THEN [msg |-> m, appended |-> <<>>, ack |-> FALSE,
          complete |-> m.firstMissingFrag = m.totalFrags]
    ELSE LET r == InboundAccept(m, pkt)
             m2 == [m EXCEPT !.dataStagingRing = r.ring,
                             !.firstMissingFrag = r.fmf,
                             !.when = IF m.useTimer THEN now + TIMEOUT_NS ELSE @]
         IN  [msg |-> m2, appended |-> r.appended, ack |-> TRUE,
              complete |-> m2.firstMissingFrag = m2.totalFrags]

\* processReceivedData: the message afterwards, the payloads appended to
\* *dataBuffer, whether sendAck() ran, and the value returned.
InboundProcessReceivedData(m, pkt, now) ==
    IF pkt.totalFrags # m.totalFrags
    THEN [msg |-> m, appended |-> <<>>, ack |-> FALSE,
          complete |-> m.firstMissingFrag = m.totalFrags]
    ELSE LET r == InboundAccept(m, pkt)
             m2 == [m EXCEPT !.dataStagingRing = r.ring,
                             !.firstMissingFrag = r.fmf,
                             !.when = IF m.useTimer THEN now + TIMEOUT_NS ELSE @]
         IN  [msg |-> m2, appended |-> r.appended, ack |-> pkt.requestAck,
              complete |-> m2.firstMissingFrag = m2.totalFrags]

(***************************************************************************)
(* OutboundMessage                                                         *)
(***************************************************************************)
\* The sentTimes sentinel of an acknowledged fragment; 0 is "never sent".
ACKED == 0 - 1
\* Length of the sentTimes ring.
SentTimesLength == WINDOW_SIZE
\* sendBuffer == NULL.
NoBuffer == <<>>

Min(a, b) == IF a <= b THEN a ELSE b

NewOutboundMessage(useTimer) ==
    [sendBuffer |-> NoBuffer, firstMissingFrag |-> 0, totalFrags |-> 0,
     packetsSinceAckReq |-> 0, sentTimes |-> RingClear(SentTimesLength, 0),
     numAcked |-> 0, when |-> 0, numTimeouts |-> 0, useTimer |-> useTimer]

OutboundClear(m) ==
    [m EXCEPT !.sendBuffer = NoBuffer, !.firstMissingFrag = 0, !.totalFrags = 0,
              !.packetsSinceAckReq = 0,
              !.sentTimes = RingClear(SentTimesLength, 0),
              !.numAcked = 0, !.when = 0, !.numTimeouts = 0]

\* The first fragment send() does not consider.
SendStop(m) ==
    Min(Min(m.totalFrags, m.numAcked + WINDOW_SIZE),
        m.firstMissingFrag + MAX_STAGING_FRAGMENTS + 1)

\* The loop of send() skipping only what was sent and has not timed out.
RECURSIVE SendLoopResendAcked(_, _, _, _, _)
SendLoopResendAcked(m, i, n, now, sent) ==
    IF i >= n THEN [msg |-> m, sent |-> sent]
    ELSE LET sentTime == m.sentTimes[i + 1]
         IN  IF sentTime # 0 /\ sentTime # ACKED /\ sentTime + TIMEOUT_NS >= now
             THEN SendLoopResendAcked(m, i + 1, n, now, sent)
             ELSE LET isRetransmit == sentTime # 0
                      m2 == [m EXCEPT !.sentTimes[i + 1] = now]
                      sent2 == Append(sent, <<m.firstMissingFrag + i, isRetransmit>>)
                  IN  IF isRetransmit THEN [msg |-> m2, sent |-> sent2]
                      ELSE SendLoopResendAcked(m2, i + 1, n, now, sent2)

\* The loop of send() going on after a retransmission.
RECURSIVE SendLoopResendAll(_, _, _, _, _)
SendLoopResendAll(m, i, n, now, sent) ==
    IF i >= n THEN [msg |-> m, sent |-> sent]
    ELSE LET sentTime == m.sentTimes[i + 1]
         IN  IF sentTime = ACKED \/ (sentTime # 0 /\ sentTime + TIMEOUT_NS >= now)
             THEN SendLoopResendAll(m, i + 1, n, now, sent)
             ELSE LET isRetransmit == sentTime # 0
                      fragNumber == m.firstMissingFrag + i
                      requestAck ==
                          \/ isRetransmit
                          \/ /\ m.packetsSinceAckReq = REQ_ACK_AFTER - 1
                             /\ fragNumber # m.totalFrags - 1
                      m2 == [m EXCEPT !.sentTimes[i + 1] = now,
                                      !.packetsSinceAckReq =
                                          IF requestAck THEN 0 ELSE @ + 1]
                  IN  SendLoopResendAll(m2, i + 1, n, now,
                                        Append(sent, <<fragNumber, requestAck>>))

\* The for loop of send() from index i: the message afterwards and the
\* fragments handed to sendOneData, in order, as <<fragNumber, requestAck>>.
RECURSIVE SendLoop(_, _, _, _, _)
SendLoop(m, i, n, now, sent) ==
    IF i >= n THEN [msg |-> m, sent |-> sent]
    ELSE LET sentTime == m.sentTimes[i + 1]
         IN  IF sentTime = ACKED \/ (sentTime # 0 /\ sentTime + TIMEOUT_NS >= now)
             THEN SendLoop(m, i + 1, n, now, sent)
             ELSE LET isRetransmit == sentTime # 0
                      fragNumber == m.firstMissingFrag + i
                      requestAck ==
                          \/ isRetransmit
                          \/ /\ m.packetsSinceAckReq = REQ_ACK_AFTER - 1
                             /\ fragNumber # m.totalFrags - 1
                      m2 == [m EXCEPT !.sentTimes[i + 1] = now,
                                      !.packetsSinceAckReq =
                                          IF requestAck THEN 0 ELSE @ + 1]
                      sent2 == Append(sent, <<fragNumber, requestAck>>)
                  IN  IF isRetransmit THEN [msg |-> m2, sent |-> sent2]
                      ELSE SendLoop(m2, i + 1, n, now, sent2)

\* The second loop of send(): the oldest send time among the leading sent
\* entries, 0 when there is none.
RECURSIVE OldestSent(_, _, _, _)
OldestSent(sentTimes, i, n, oldest) ==
    IF i >= n \/ sentTimes[i + 1] = 0 THEN oldest
    ELSE LET t == sentTimes[i + 1]
         IN  OldestSent(sentTimes, i + 1, n,
                        IF t # ACKED /\ (oldest = 0 \/ t < oldest) THEN t ELSE oldest)

\* send() that does not stop at the last fragment.
OutboundSendPastEnd(m, now) ==
    LET n == Min(m.numAcked + WINDOW_SIZE,
                 m.firstMissingFrag + MAX_STAGING_FRAGMENTS + 1) - m.firstMissingFrag
        r == SendLoop(m, 0, n, now, <<>>)
    IN  [msg |-> r.msg, sent |-> r.sent]

\* send(): the message afterwards and the fragments transmitted.
OutboundSend(m, now) ==
    LET n == SendStop(m) - m.firstMissingFrag
        r == SendLoop(m, 0, n, now, <<>>)
        oldest == OldestSent(r.msg.sentTimes, 0, n, 0)
    IN  [msg |-> IF m.useTimer /\ oldest # 0
                 THEN [r.msg EXCEPT !.when = oldest + TIMEOUT_NS]
                 ELSE r.msg,
         sent |-> r.sent]

OutboundBeginSending(m, buffer, now) ==
    OutboundSend([m EXCEPT !.sendBuffer = buffer, !.totalFrags = Len(buffer)], now)

\* The loop of processReceivedAck over the bits of ack->stagingVector.
RECURSIVE MarkAcked(_, _, _)
MarkAcked(m, vector, i) ==
    IF i >= Len(m.sentTimes) - 1 THEN m
    ELSE IF (vector \div Pow2(i)) % 2 = 1
         THEN MarkAcked([m EXCEPT !.sentTimes[i + 2] = ACKED,
                                  !.numAcked = @ + 1], vector, i + 1)
         ELSE MarkAcked(m, vector, i + 1)

\* The ACK applied without starting numAcked again at firstMissingFrag.
OutboundApplyAckAccumulate(m, ack) ==
    IF ack.firstMissingFrag < m.firstMissingFrag THEN m
    ELSE IF ack.firstMissingFrag > m.totalFrags THEN m
    ELSE IF ack.firstMissingFrag > m.firstMissingFrag + Len(m.sentTimes) THEN m
    ELSE MarkAcked(
             [m EXCEPT !.sentTimes = RingAdvance(@, ack.firstMissingFrag
                                                     - m.firstMissingFrag, 0),
                       !.firstMissingFrag = ack.firstMissingFrag],
             ack.stagingVector, 0)

\* The ACK applied without the check against the length of the ring.
OutboundApplyAckTooFar(m, ack) ==
    IF ack.firstMissingFrag < m.firstMissingFrag THEN m
    ELSE IF ack.firstMissingFrag > m.totalFrags THEN m
    ELSE MarkAcked(
             [m EXCEPT !.sentTimes = RingAdvance(@, ack.firstMissingFrag
                                                     - m.firstMissingFrag, 0),
                       !.firstMissingFrag = ack.firstMissingFrag,
                       !.numAcked = ack.firstMissingFrag],
             ack.stagingVector, 0)

\* The four-way branch of processReceivedAck: stale, invalid, too far, or
\* applied.
OutboundApplyAck(m, ack) ==
    IF ack.firstMissingFrag < m.firstMissingFrag THEN m
    ELSE IF ack.firstMissingFrag > m.totalFrags THEN m
    ELSE IF ack.firstMissingFrag > m.firstMissingFrag + Len(m.sentTimes) THEN m
    ELSE MarkAcked(
             [m EXCEPT !.sentTimes = RingAdvance(@, ack.firstMissingFrag
                                                     - m.firstMissingFrag, 0),
                       !.firstMissingFrag = ack.firstMissingFrag,
                       !.numAcked = ack.firstMissingFrag],
             ack.stagingVector, 0)

\* processReceivedAck: the message afterwards, the fragments sent and the
\* value returned.
OutboundProcessReceivedAck(m, ack, now) ==
    IF m.sendBuffer = NoBuffer
    THEN [msg |-> m, sent |-> <<>>, complete |-> FALSE]
    ELSE LET r == OutboundSend(OutboundApplyAck(m, ack), now)
         IN  [msg |-> r.msg, sent |-> r.sent,
              complete |-> r.msg.firstMissingFrag = r.msg.totalFrags]

(***************************************************************************)
(* Headers and packets.  Every datagram is a record of the header fields   *)
(* the code reads, the DATA payload, the AckResponse and the               *)
(* SessionOpenResponse; a field a packet does not carry holds its zero.    *)
(***************************************************************************)
INVALID_TOKEN == 204
INVALID_HINT == 204
\* rpcId is unsigned and wraps around; the model's width is scaled down.
RpcIdModulus == 16
\* ~0U, the rpcId of a fresh server channel.
RpcIdNone == RpcIdModulus - 1

Header(direction, payloadType, token, rpcId, cHint, sHint, channelId) ==
    [direction |-> direction, payloadType |-> payloadType,
     sessionToken |-> token, rpcId |-> rpcId,
     clientSessionHint |-> cHint, serverSessionHint |-> sHint,
     channelId |-> channelId, fragNumber |-> 0, totalFrags |-> 0,
     requestAck |-> FALSE, payload |-> NoPayload,
     ack |-> [firstMissingFrag |-> 0, stagingVector |-> 0],
     maxChannelId |-> 0]

\* sendOneData for every fragment send() handed over.
DataPackets(header, msg, sent) ==
    { [header EXCEPT !.payloadType = "DATA",
                     !.fragNumber = sent[k][1],
                     !.totalFrags = msg.totalFrags,
                     !.requestAck = sent[k][2],
                     !.payload = msg.sendBuffer[sent[k][1] + 1]]
      : k \in DOMAIN sent }

\* InboundMessage::sendAck().
AckPacket(header, msg) ==
    [header EXCEPT !.payloadType = "ACK", !.ack = InboundAck(msg)]

(***************************************************************************)
(* ClientRpc                                                               *)
(***************************************************************************)
NewClientRpc ==
    [state |-> "IDLE", requestBuffer |-> NoBuffer, responseBuffer |-> <<>>]

\* What getReply() does in each state: "poll" stands for another round of
\* the loop.
GetReplyOutcomeSwallow(state) ==
    CASE state = "IDLE" -> "returned"
      [] state = "COMPLETED" -> "returned"
      [] state = "ABORTED" -> "returned"
      [] OTHER -> "poll"

GetReplyOutcome(state) ==
    CASE state = "IDLE" -> "returned"
      [] state = "COMPLETED" -> "returned"
      [] state = "ABORTED" -> "thrown"
      [] OTHER -> "poll"

(***************************************************************************)
(* ClientSession                                                           *)
(***************************************************************************)
\* currentRpc == NULL.
NoRpc == 0
ClientUseTimer == TRUE
ServerUseTimer == FALSE

NewClientChannel ==
    [state |-> "IDLE", rpcId |-> 0, currentRpc |-> NoRpc,
     inboundMsg |-> NewInboundMessage(ClientUseTimer),
     outboundMsg |-> NewOutboundMessage(ClientUseTimer)]

NewClientSession(id) ==
    [id |-> id, numChannels |-> 0, channels |-> <<>>, channelQueue |-> <<>>,
     token |-> INVALID_TOKEN, serverSessionHint |-> INVALID_HINT]

ClientFillHeader(s, channelId) ==
    Header("CLIENT_TO_SERVER", "DATA", s.token, s.channels[channelId + 1].rpcId,
           s.id, s.serverSessionHint, channelId)

ClientIsConnected(s) == s.numChannels # 0

\* connect(): the SESSION_OPEN request.
ClientConnect(s) ==
    Header("CLIENT_TO_SERVER", "SESSION_OPEN", s.token, 0, s.id,
           s.serverSessionHint, 0)

ClientClearChannels(s) == [s EXCEPT !.numChannels = 0, !.channels = <<>>]

\* The index of the first IDLE channel, or -1.
ClientGetAvailableChannel(s) ==
    LET idle == {i \in 0..(s.numChannels - 1) : s.channels[i + 1].state = "IDLE"}
    IN  IF idle = {} THEN 0 - 1
        ELSE CHOOSE i \in idle : \A j \in idle : i <= j

\* channel->state = SENDING; currentRpc = rpc; outboundMsg.beginSending():
\* the session afterwards and the packets sent.
ClientAssign(s, rp, channelId, rpc, now) ==
    LET ch == s.channels[channelId + 1]
        r == OutboundBeginSending(ch.outboundMsg, rp[rpc].requestBuffer, now)
        s2 == [s EXCEPT !.channels[channelId + 1] =
                  [ch EXCEPT !.state = "SENDING", !.currentRpc = rpc,
                             !.outboundMsg = r.msg]]
    IN  [session |-> s2,
         out |-> DataPackets(ClientFillHeader(s2, channelId), r.msg, r.sent)]

\* startRpc() that queues the RPC whether or not a channel is available.
ClientStartRpcQueueOnly(s, rp, rpc, now) ==
    [session |-> [s EXCEPT !.channelQueue = Append(@, rpc)], out |-> {}]

ClientStartRpc(s, rp, rpc, now) ==
    LET channelId == ClientGetAvailableChannel(s)
    IN  IF channelId < 0
        THEN [session |-> [s EXCEPT !.channelQueue = Append(@, rpc)], out |-> {}]
        ELSE ClientAssign(s, rp, channelId, rpc, now)

\* ClientRpc::aborted() on every RPC of the session, then the reset.
ClientCloseKeepQueue(s, rp) ==
    LET current == {s.channels[i].currentRpc : i \in 1..s.numChannels} \ {NoRpc}
    IN  [session |-> [ClientClearChannels(s) EXCEPT
                         !.serverSessionHint = INVALID_HINT,
                         !.token = INVALID_TOKEN],
         rpcs |-> [r \in DOMAIN rp |->
                     IF r \in current THEN [rp[r] EXCEPT !.state = "ABORTED"]
                     ELSE rp[r]]]

ClientClose(s, rp) ==
    LET current == {s.channels[i].currentRpc : i \in 1..s.numChannels} \ {NoRpc}
        queued == {s.channelQueue[i] : i \in DOMAIN s.channelQueue}
    IN  [session |-> [ClientClearChannels(s) EXCEPT
                         !.channelQueue = <<>>,
                         !.serverSessionHint = INVALID_HINT,
                         !.token = INVALID_TOKEN],
         rpcs |-> [r \in DOMAIN rp |->
                     IF r \in current \cup queued
                     THEN [rp[r] EXCEPT !.state = "ABORTED"]
                     ELSE rp[r]]]

\* expire() that closes the session whatever it carries.
ClientExpireAlways(s, rp) ==
    LET c == ClientClose(s, rp)
    IN  [ok |-> TRUE, session |-> c.session, rpcs |-> c.rpcs]

\* expire(): whether it succeeded, the session and the RPCs afterwards.
ClientExpire(s, rp) ==
    IF \/ \E i \in 1..s.numChannels : s.channels[i].currentRpc # NoRpc
       \/ s.channelQueue # <<>>
    THEN [ok |-> FALSE, session |-> s, rpcs |-> rp]
    ELSE LET c == ClientClose(s, rp)
         IN  [ok |-> TRUE, session |-> c.session, rpcs |-> c.rpcs]

RECURSIVE ClientDrainQueueLifo(_, _, _, _, _)
ClientDrainQueueLifo(s, rp, i, now, out) ==
    IF i >= s.numChannels \/ s.channelQueue = <<>>
    THEN [session |-> s, out |-> out]
    ELSE LET q == s.channelQueue
             rpc == q[Len(q)]
             r == ClientAssign([s EXCEPT !.channelQueue = SubSeq(q, 1, Len(q) - 1)],
                               rp, i, rpc, now)
         IN  ClientDrainQueueLifo(r.session, rp, i + 1, now, out \cup r.out)

\* The loop of processSessionOpenResponse from channel i on.
RECURSIVE ClientDrainQueue(_, _, _, _, _)
ClientDrainQueue(s, rp, i, now, out) ==
    IF i >= s.numChannels \/ s.channelQueue = <<>>
    THEN [session |-> s, out |-> out]
    ELSE LET rpc == Head(s.channelQueue)
             r == ClientAssign([s EXCEPT !.channelQueue = Tail(@)], rp, i, rpc, now)
         IN  ClientDrainQueue(r.session, rp, i + 1, now, out \cup r.out)

\* processSessionOpenResponse without the look at numChannels.
ClientProcessSessionOpenResponseAgain(s, rp, pkt, now) ==
    LET n == Min(pkt.maxChannelId + 1, MAX_NUM_CHANNELS_PER_SESSION)
        s2 == [s EXCEPT !.serverSessionHint = pkt.serverSessionHint,
                        !.token = pkt.sessionToken,
                        !.numChannels = n,
                        !.channels = [i \in 1..n |-> NewClientChannel]]
    IN  ClientDrainQueue(s2, rp, 0, now, {})

ClientProcessSessionOpenResponse(s, rp, pkt, now) ==
    IF s.numChannels > 0 THEN [session |-> s, out |-> {}]
    ELSE LET n == Min(pkt.maxChannelId + 1, MAX_NUM_CHANNELS_PER_SESSION)
             s2 == [s EXCEPT !.serverSessionHint = pkt.serverSessionHint,
                             !.token = pkt.sessionToken,
                             !.numChannels = n,
                             !.channels = [i \in 1..n |-> NewClientChannel]]
         IN  ClientDrainQueue(s2, rp, 0, now, {})

ClientProcessReceivedAck(s, channelId, pkt, now) ==
    LET ch == s.channels[channelId + 1]
    IN  IF ch.state # "SENDING" THEN [session |-> s, out |-> {}]
        ELSE LET r == OutboundProcessReceivedAck(ch.outboundMsg, pkt.ack, now)
             IN  [session |-> [s EXCEPT !.channels[channelId + 1].outboundMsg = r.msg],
                  out |-> DataPackets(ClientFillHeader(s, channelId), r.msg, r.sent)]

\* Completion that leaves the channel's rpcId as it was.
ClientCompleteNoIncrement(s, rp, channelId, now) ==
    LET ch == s.channels[channelId + 1]
        rp2 == [rp EXCEPT ![ch.currentRpc].state = "COMPLETED"]
    IN  [session |-> [s EXCEPT !.channels[channelId + 1] =
                         [ch EXCEPT !.state = "IDLE", !.currentRpc = NoRpc,
                                    !.outboundMsg = OutboundClear(@),
                                    !.inboundMsg = InboundClear(@)]],
         rpcs |-> rp2, out |-> {}]

\* Completion that starts the next queued RPC and leaves it on the queue.
ClientCompleteKeepQueued(s, rp, channelId, now) ==
    LET ch == s.channels[channelId + 1]
        rp2 == [rp EXCEPT ![ch.currentRpc].state = "COMPLETED"]
        ch2 == [ch EXCEPT !.rpcId = (@ + 1) % RpcIdModulus,
                          !.outboundMsg = OutboundClear(@),
                          !.inboundMsg = InboundClear(@)]
    IN  IF s.channelQueue = <<>>
        THEN [session |-> [s EXCEPT !.channels[channelId + 1] =
                              [ch2 EXCEPT !.state = "IDLE", !.currentRpc = NoRpc]],
              rpcs |-> rp2, out |-> {}]
        ELSE LET r == ClientAssign([s EXCEPT !.channels[channelId + 1] = ch2],
                                   rp2, channelId, Head(s.channelQueue), now)
             IN  [session |-> r.session, rpcs |-> rp2, out |-> r.out]

\* The tail of processReceivedData once the inbound message is complete.
ClientComplete(s, rp, channelId, now) ==
    LET ch == s.channels[channelId + 1]
        rp2 == [rp EXCEPT ![ch.currentRpc].state = "COMPLETED"]
        ch2 == [ch EXCEPT !.rpcId = (@ + 1) % RpcIdModulus,
                          !.outboundMsg = OutboundClear(@),
                          !.inboundMsg = InboundClear(@)]
    IN  IF s.channelQueue = <<>>
        THEN [session |-> [s EXCEPT !.channels[channelId + 1] =
                              [ch2 EXCEPT !.state = "IDLE", !.currentRpc = NoRpc]],
              rpcs |-> rp2, out |-> {}]
        ELSE LET r == ClientAssign([s EXCEPT !.channels[channelId + 1] = ch2,
                                             !.channelQueue = Tail(@)],
                                   rp2, channelId, Head(s.channelQueue), now)
             IN  [session |-> r.session, rpcs |-> rp2, out |-> r.out]

ClientProcessReceivedData(s, rp, channelId, pkt, now) ==
    LET ch == s.channels[channelId + 1]
    IN  IF ch.state = "IDLE" THEN [session |-> s, rpcs |-> rp, out |-> {}]
        ELSE LET ch1 == IF ch.state = "SENDING"
                        THEN [ch EXCEPT !.outboundMsg = OutboundClear(@),
                                        !.inboundMsg = InboundInit(@, pkt.totalFrags, now),
                                        !.state = "RECEIVING"]
                        ELSE ch
                 r == InboundProcessReceivedData(ch1.inboundMsg, pkt, now)
                 s1 == [s EXCEPT !.channels[channelId + 1] =
                           [ch1 EXCEPT !.inboundMsg = r.msg]]
                 rp1 == [rp EXCEPT ![ch.currentRpc].responseBuffer = @ \o r.appended]
                 acks == IF r.ack THEN {AckPacket(ClientFillHeader(s1, channelId), r.msg)}
                         ELSE {}
             IN  IF r.complete
                 THEN LET c == ClientComplete(s1, rp1, channelId, now)
                      IN  [session |-> c.session, rpcs |-> c.rpcs,
                           out |-> acks \cup c.out]
                 ELSE [session |-> s1, rpcs |-> rp1, out |-> acks]

\* BAD_SESSION handled without putting the current RPCs back on the queue.
ClientProcessBadSessionLose(s) ==
    LET s2 == [ClientClearChannels(s) EXCEPT
                  !.serverSessionHint = INVALID_HINT,
                  !.token = INVALID_TOKEN]
    IN  [session |-> s2, out |-> {ClientConnect(s2)}]

\* BAD_SESSION: requeue the current RPCs, drop the channels and reconnect.
ClientProcessBadSession(s) ==
    LET RECURSIVE Requeue(_, _)
        Requeue(q, i) ==
            IF i > s.numChannels THEN q
            ELSE Requeue(IF s.channels[i].currentRpc # NoRpc
                         THEN Append(q, s.channels[i].currentRpc) ELSE q, i + 1)
        s2 == [ClientClearChannels(s) EXCEPT
                  !.channelQueue = Requeue(s.channelQueue, 1),
                  !.serverSessionHint = INVALID_HINT,
                  !.token = INVALID_TOKEN]
    IN  [session |-> s2, out |-> {ClientConnect(s2)}]

ClientProcessInboundPacket(s, rp, pkt, now) ==
    IF pkt.channelId >= s.numChannels
    THEN IF pkt.payloadType = "SESSION_OPEN"
         THEN LET r == ClientProcessSessionOpenResponse(s, rp, pkt, now)
              IN  [session |-> r.session, rpcs |-> rp, out |-> r.out]
         ELSE [session |-> s, rpcs |-> rp, out |-> {}]
    ELSE IF s.channels[pkt.channelId + 1].rpcId # pkt.rpcId
    THEN [session |-> s, rpcs |-> rp, out |-> {}]
    ELSE CASE pkt.payloadType = "DATA" ->
                ClientProcessReceivedData(s, rp, pkt.channelId, pkt, now)
           [] pkt.payloadType = "ACK" ->
                LET r == ClientProcessReceivedAck(s, pkt.channelId, pkt, now)
                IN  [session |-> r.session, rpcs |-> rp, out |-> r.out]
           [] pkt.payloadType = "BAD_SESSION" ->
                LET r == ClientProcessBadSession(s)
                IN  [session |-> r.session, rpcs |-> rp, out |-> r.out]
           [] OTHER -> [session |-> s, rpcs |-> rp, out |-> {}]

(***************************************************************************)
(* The client's timers (InboundMessage::Timer and OutboundMessage::Timer   *)
(* of FastTransport.h): a timer that fires counts a timeout, closes the    *)
(* session at TIMEOUTS_UNTIL_ABORTING and otherwise sends an ACK (inbound, *)
(* rescheduling itself) or calls send() (outbound).                        *)
(***************************************************************************)
ClientFireInboundTimer(s, rp, channelId, now) ==
    LET ch == s.channels[channelId + 1]
        m == [ch.inboundMsg EXCEPT !.when = 0, !.numTimeouts = @ + 1]
    IN  IF m.numTimeouts = TIMEOUTS_UNTIL_ABORTING
        THEN LET c == ClientClose([s EXCEPT !.channels[channelId + 1].inboundMsg = m], rp)
             IN  [session |-> c.session, rpcs |-> c.rpcs, out |-> {}]
        ELSE LET m2 == [m EXCEPT !.when = now + TIMEOUT_NS]
                 s2 == [s EXCEPT !.channels[channelId + 1].inboundMsg = m2]
             IN  [session |-> s2, rpcs |-> rp,
                  out |-> {AckPacket(ClientFillHeader(s2, channelId), m2)}]

ClientFireOutboundTimer(s, rp, channelId, now) ==
    LET ch == s.channels[channelId + 1]
        m == [ch.outboundMsg EXCEPT !.when = 0, !.numTimeouts = @ + 1]
    IN  IF m.numTimeouts = TIMEOUTS_UNTIL_ABORTING
        THEN LET c == ClientClose([s EXCEPT !.channels[channelId + 1].outboundMsg = m], rp)
             IN  [session |-> c.session, rpcs |-> c.rpcs, out |-> {}]
        ELSE LET r == OutboundSend(m, now)
                 s2 == [s EXCEPT !.channels[channelId + 1].outboundMsg = r.msg]
             IN  [session |-> s2, rpcs |-> rp,
                  out |-> DataPackets(ClientFillHeader(s2, channelId), r.msg, r.sent)]

(***************************************************************************)
(* ServerSession                                                           *)
(***************************************************************************)
\* A ServerRpc object: id names the object (the session's token, the channel
\* and the rpcId it was allocated for).
NewServerRpc(token, channelId, rpcId) ==
    [id |-> <<token, channelId, rpcId>>, recvPayload |-> <<>>, replyPayload |-> <<>>]
NoServerRpc == [id |-> <<>>, recvPayload |-> <<>>, replyPayload |-> <<>>]

NewServerChannel ==
    [state |-> "IDLE", rpcId |-> RpcIdNone, currentRpc |-> NoServerRpc,
     inboundMsg |-> NewInboundMessage(ServerUseTimer),
     outboundMsg |-> NewOutboundMessage(ServerUseTimer)]

NewServerSession(id) ==
    [id |-> id, clientSessionHint |-> INVALID_HINT, lastActivityTime |-> 0,
     token |-> INVALID_TOKEN,
     channels |-> [i \in 1..NUM_CHANNELS_PER_SESSION |-> NewServerChannel]]

ServerFillHeader(s, channelId) ==
    Header("SERVER_TO_CLIENT", "DATA", s.token, s.channels[channelId + 1].rpcId,
           s.clientSessionHint, s.id, channelId)

ServerBeginSending(s, channelId, now) ==
    LET ch == s.channels[channelId + 1]
        r == OutboundBeginSending(ch.outboundMsg, ch.currentRpc.replyPayload, now)
        s2 == [s EXCEPT !.channels[channelId + 1] =
                           [ch EXCEPT !.state = "SENDING_WAITING",
                                      !.outboundMsg = r.msg],
                        !.lastActivityTime = now]
    IN  [session |-> s2,
         out |-> DataPackets(ServerFillHeader(s2, channelId), r.msg, r.sent)]

\* expire() without the look at PROCESSING channels.
ServerExpireBusy(s) ==
    [ok |-> TRUE,
     session |-> [s EXCEPT
         !.channels = [i \in 1..NUM_CHANNELS_PER_SESSION |-> NewServerChannel],
         !.token = INVALID_TOKEN,
         !.clientSessionHint = INVALID_HINT,
         !.lastActivityTime = 0]]

\* expire() that reports success and leaves the session as it is.
ServerExpireKeep(s) ==
    IF \E i \in 1..NUM_CHANNELS_PER_SESSION : s.channels[i].state = "PROCESSING"
    THEN [ok |-> FALSE, session |-> s]
    ELSE [ok |-> TRUE, session |-> s]

\* expire(): whether it succeeded, and the session afterwards.
ServerExpire(s) ==
    IF s.lastActivityTime = 0 THEN [ok |-> TRUE, session |-> s]
    ELSE IF \E i \in 1..NUM_CHANNELS_PER_SESSION : s.channels[i].state = "PROCESSING"
    THEN [ok |-> FALSE, session |-> s]
    ELSE [ok |-> TRUE,
          session |-> [s EXCEPT
              !.channels = [i \in 1..NUM_CHANNELS_PER_SESSION |->
                              IF s.channels[i].state = "IDLE" THEN s.channels[i]
                              ELSE [s.channels[i] EXCEPT
                                       !.state = "IDLE", !.rpcId = RpcIdNone,
                                       !.currentRpc = NoServerRpc,
                                       !.inboundMsg = InboundClear(@),
                                       !.outboundMsg = OutboundClear(@)]],
              !.token = INVALID_TOKEN,
              !.clientSessionHint = INVALID_HINT,
              !.lastActivityTime = 0]]

ServerStartSession(s, clientSessionHint, token, now) ==
    LET s2 == [s EXCEPT !.clientSessionHint = clientSessionHint,
                        !.token = token, !.lastActivityTime = now]
    IN  [session |-> s2,
         out |-> {[Header("SERVER_TO_CLIENT", "SESSION_OPEN", token, 0,
                          clientSessionHint, s.id, 0)
                     EXCEPT !.maxChannelId = NUM_CHANNELS_PER_SESSION - 1]}]

\* processReceivedAck that makes the channel IDLE once the reply is fully
\* acknowledged.
ServerProcessReceivedAckToIdle(s, channelId, pkt, now) ==
    LET ch == s.channels[channelId + 1]
    IN  IF ch.state # "SENDING_WAITING" THEN [session |-> s, out |-> {}]
        ELSE LET r == OutboundProcessReceivedAck(ch.outboundMsg, pkt.ack, now)
             IN  [session |-> [s EXCEPT !.channels[channelId + 1] =
                                  [ch EXCEPT !.outboundMsg = r.msg,
                                             !.state = IF r.complete THEN "IDLE" ELSE @]],
                  out |-> DataPackets(ServerFillHeader(s, channelId), r.msg, r.sent)]

ServerProcessReceivedAck(s, channelId, pkt, now) ==
    LET ch == s.channels[channelId + 1]
    IN  IF ch.state # "SENDING_WAITING" THEN [session |-> s, out |-> {}]
        ELSE LET r == OutboundProcessReceivedAck(ch.outboundMsg, pkt.ack, now)
             IN  [session |-> [s EXCEPT !.channels[channelId + 1].outboundMsg = r.msg],
                  out |-> DataPackets(ServerFillHeader(s, channelId), r.msg, r.sent)]

\* processReceivedData that treats PROCESSING like RECEIVING.
ServerProcessReceivedDataAgain(s, queue, channelId, pkt, now) ==
    LET ch == s.channels[channelId + 1]
    IN  CASE ch.state \in {"RECEIVING", "PROCESSING"} ->
               LET r == InboundProcessReceivedData(ch.inboundMsg, pkt, now)
                   ch2 == [ch EXCEPT !.inboundMsg = r.msg,
                                     !.currentRpc.recvPayload = @ \o r.appended,
                                     !.state = IF r.complete THEN "PROCESSING" ELSE @]
                   s2 == [s EXCEPT !.channels[channelId + 1] = ch2]
               IN  [session |-> s2,
                    queue |-> IF r.complete THEN Append(queue, ch.currentRpc.id)
                              ELSE queue,
                    out |-> IF r.ack THEN {AckPacket(ServerFillHeader(s2, channelId), r.msg)}
                            ELSE {}]
          [] ch.state = "SENDING_WAITING" ->
               LET r == OutboundSend(ch.outboundMsg, now)
               IN  [session |-> [s EXCEPT !.channels[channelId + 1].outboundMsg = r.msg],
                    queue |-> queue,
                    out |-> DataPackets(ServerFillHeader(s, channelId), r.msg, r.sent)]
          [] OTHER -> [session |-> s, queue |-> queue, out |-> {}]

\* processReceivedData: the session, the transport's serverReadyQueue and
\* the packets sent.
ServerProcessReceivedData(s, queue, channelId, pkt, now) ==
    LET ch == s.channels[channelId + 1]
    IN  CASE ch.state = "RECEIVING" ->
               LET r == InboundProcessReceivedData(ch.inboundMsg, pkt, now)
                   ch2 == [ch EXCEPT !.inboundMsg = r.msg,
                                     !.currentRpc.recvPayload = @ \o r.appended,
                                     !.state = IF r.complete THEN "PROCESSING" ELSE @]
                   s2 == [s EXCEPT !.channels[channelId + 1] = ch2]
               IN  [session |-> s2,
                    queue |-> IF r.complete THEN Append(queue, ch.currentRpc.id)
                              ELSE queue,
                    out |-> IF r.ack THEN {AckPacket(ServerFillHeader(s2, channelId), r.msg)}
                            ELSE {}]
          [] ch.state = "PROCESSING" ->
               [session |-> s, queue |-> queue,
                out |-> IF pkt.requestAck
                        THEN {AckPacket(ServerFillHeader(s, channelId), ch.inboundMsg)}
                        ELSE {}]
          [] ch.state = "SENDING_WAITING" ->
               LET r == OutboundSend(ch.outboundMsg, now)
               IN  [session |-> [s EXCEPT !.channels[channelId + 1].outboundMsg = r.msg],
                    queue |-> queue,
                    out |-> DataPackets(ServerFillHeader(s, channelId), r.msg, r.sent)]
          [] OTHER -> [session |-> s, queue |-> queue, out |-> {}]

\* processInboundPacket that starts the next RPC on a packet of any type.
ServerProcessInboundPacketAnyType(s0, queue, pkt, now) ==
    LET s == [s0 EXCEPT !.lastActivityTime = now]
        drop == [session |-> s, queue |-> queue, out |-> {}]
    IN  IF pkt.channelId >= NUM_CHANNELS_PER_SESSION THEN drop
        ELSE LET ch == s.channels[pkt.channelId + 1]
             IN  IF ch.rpcId = pkt.rpcId
                 THEN CASE pkt.payloadType = "DATA" ->
                             ServerProcessReceivedData(s, queue, pkt.channelId, pkt, now)
                        [] pkt.payloadType = "ACK" ->
                             LET r == ServerProcessReceivedAck(s, pkt.channelId, pkt, now)
                             IN  [session |-> r.session, queue |-> queue, out |-> r.out]
                        [] OTHER -> drop
                 ELSE IF (ch.rpcId + 1) % RpcIdModulus = pkt.rpcId
                 THEN LET ch2 == [ch EXCEPT
                              !.state = "RECEIVING",
                              !.rpcId = pkt.rpcId,
                              !.inboundMsg = InboundInit(@, pkt.totalFrags, now),
                              !.outboundMsg = OutboundClear(@),
                              !.currentRpc = NewServerRpc(s.token, pkt.channelId,
                                                          pkt.rpcId)]
                      IN  ServerProcessReceivedData(
                              [s EXCEPT !.channels[pkt.channelId + 1] = ch2],
                              queue, pkt.channelId, pkt, now)
                 ELSE drop

ServerProcessInboundPacket(s0, queue, pkt, now) ==
    LET s == [s0 EXCEPT !.lastActivityTime = now]
        drop == [session |-> s, queue |-> queue, out |-> {}]
    IN  IF pkt.channelId >= NUM_CHANNELS_PER_SESSION THEN drop
        ELSE LET ch == s.channels[pkt.channelId + 1]
             IN  IF ch.rpcId = pkt.rpcId
                 THEN CASE pkt.payloadType = "DATA" ->
                             ServerProcessReceivedData(s, queue, pkt.channelId, pkt, now)
                        [] pkt.payloadType = "ACK" ->
                             LET r == ServerProcessReceivedAck(s, pkt.channelId, pkt, now)
                             IN  [session |-> r.session, queue |-> queue, out |-> r.out]
                        [] OTHER -> drop
                 ELSE IF (ch.rpcId + 1) % RpcIdModulus = pkt.rpcId
                 THEN IF pkt.payloadType = "DATA"
                      THEN LET ch2 == [ch EXCEPT
                                   !.state = "RECEIVING",
                                   !.rpcId = pkt.rpcId,
                                   !.inboundMsg = InboundInit(@, pkt.totalFrags, now),
                                   !.outboundMsg = OutboundClear(@),
                                   !.currentRpc = NewServerRpc(s.token, pkt.channelId,
                                                               pkt.rpcId)]
                           IN  ServerProcessReceivedData(
                                   [s EXCEPT !.channels[pkt.channelId + 1] = ch2],
                                   queue, pkt.channelId, pkt, now)
                      ELSE drop
                 ELSE drop

(***************************************************************************)
(* State.                                                                  *)
(*   inMsg .. inAck      the InboundMessage of SpecIn, its dataBuffer, the  *)
(*                       last packet, the fragments delivered so far, the  *)
(*                       firstMissingFrag after each, the ACK just sent    *)
(*   now                 rdtsc()                                           *)
(*   net                 the datagrams sent so far; any of them may be     *)
(*                       delivered at any time, any number of times        *)
(*   rpcs                the ClientRpc objects                             *)
(*   replied             how getReply() ended for each ClientRpc           *)
(*   clientSessions      FastTransport::clientSessions                     *)
(*   serverSessions      FastTransport::serverSessions: the sessions and   *)
(*                       the free list                                     *)
(*   serverReadyQueue    FastTransport::serverReadyQueue                   *)
(*   serving             the ServerRpcs serverRecv() returned that were    *)
(*                       not replied to yet                                *)
(*   tokens              how many session tokens were minted               *)
(*   outMsg .. outEra    the OutboundMessage of SpecOut, the InboundMessage *)
(*                       of its peer, the DATA fragments and the ACKs sent  *)
(*                       so far, the fragments the last step transmitted,   *)
(*                       the fragments ever marked ACKED, rdtsc(), and how  *)
(*                       often the message was started again                *)
(*   timerList .. timerFired  FastTransport::timerList (head first), each  *)
(*                       Timer's when, rdtsc(), and the timers the last     *)
(*                       fireTimers() fired                                 *)
(***************************************************************************)
VARIABLES inMsg, inBuf, inLast, inArrived, inTrace, inAck,
          now, net, rpcs, replied, clientSessions, serverSessions,
          serverReadyQueue, serving, tokens,
          outMsg, outPeer, outData, outAcks, outLast, outAcked, outNow, outEra,
          timerList, timerWhen, timerNow, timerFired

inVars == <<inMsg, inBuf, inLast, inArrived, inTrace, inAck>>
sysVars == <<now, net, rpcs, replied, clientSessions, serverSessions,
             serverReadyQueue, serving, tokens>>
outVars == <<outMsg, outPeer, outData, outAcks, outLast, outAcked, outNow, outEra>>
timerVars == <<timerList, timerWhen, timerNow, timerFired>>
unitVars == <<inVars, outVars, timerVars>>
vars == <<inVars, outVars, timerVars, sysVars>>

\* Bounds of the transport specification (Spec).
MaxRpcs == 2
MaxFrags == 2
\* Fragments of all the requests of a behaviour together.
MaxRequestFrags == 2
MaxNow == 3
MaxTokens == 2
MaxServerSessions == 2
\* Longest response buffer followed (a buffer is not truncated when its RPC
\* is queued again, so replayed datagrams can grow it without end).
MaxResponseLen == 3

SysInit ==
    /\ now = 1
    /\ net = {}
    /\ rpcs = [r \in 1..MaxRpcs |-> NewClientRpc]
    /\ replied = [r \in 1..MaxRpcs |-> "none"]
    /\ clientSessions = <<>>
    /\ serverSessions = [sessions |-> <<>>, free |-> <<>>]
    /\ serverReadyQueue = <<>>
    /\ serving = {}
    /\ tokens = 0

\* No packet was delivered yet.
NoPacket == [fragNumber |-> 0 - 1, totalFrags |-> 0, requestAck |-> FALSE,
             payload |-> NoPayload]
\* No ACK was sent by the last delivery.
NoAck == [firstMissingFrag |-> 0 - 1, stagingVector |-> 0]

InIdle ==
    /\ inMsg = NewInboundMessage(FALSE)
    /\ inBuf = <<>>
    /\ inLast = NoPacket
    /\ inArrived = <<>>
    /\ inTrace = <<0>>
    /\ inAck = NoAck

\* No message is being sent.
OutIdle ==
    /\ outMsg = NewOutboundMessage(TRUE)
    /\ outPeer = NewInboundMessage(FALSE)
    /\ outData = {}
    /\ outAcks = {}
    /\ outLast = <<>>
    /\ outAcked = {}
    /\ outNow = 1
    /\ outEra = 0

\* No timer is scheduled (timerList after LIST_INIT).
TimerIdle ==
    /\ timerList = <<>>
    /\ timerWhen = <<>>
    /\ timerNow = 1
    /\ timerFired = <<>>

(***************************************************************************)
(* SpecIn: one InboundMessage fed DATA fragments of one message in every   *)
(* order, with duplicates, a wrong totalFrags and requestAck.              *)
(***************************************************************************)

InInit ==
    /\ \E n \in 1..InMaxFrags : inMsg = InboundInit(NewInboundMessage(FALSE), n, 1)
    /\ inBuf = <<>>
    /\ inLast = NoPacket
    /\ inArrived = <<>>
    /\ inTrace = <<0>>
    /\ inAck = NoAck
    /\ OutIdle
    /\ TimerIdle
    /\ SysInit

\* A DATA fragment of the message arrives (tryProcessPacket down to
\* InboundMessage::processReceivedData).
InDeliver(f, tf, ra) ==
    LET pkt == [fragNumber |-> f, totalFrags |-> tf, requestAck |-> ra,
                payload |-> Payload(0, 1, f)]
        r == InboundProcessReceivedData(inMsg, pkt, 1)
        counted == tf = inMsg.totalFrags
    IN  /\ counted => Len(inArrived) < InMaxDeliveries
        /\ inMsg' = r.msg
        /\ inBuf' = inBuf \o r.appended
        /\ inLast' = pkt
        /\ inArrived' = IF counted THEN Append(inArrived, f) ELSE inArrived
        /\ inTrace' = IF counted THEN Append(inTrace, r.msg.firstMissingFrag)
                                  ELSE inTrace
        /\ inAck' = IF r.ack THEN InboundAck(r.msg) ELSE NoAck
        /\ UNCHANGED sysVars
        /\ UNCHANGED <<outVars, timerVars>>

InNext ==
    \E f \in 0..(inMsg.totalFrags - 1), ra \in BOOLEAN :
        \/ InDeliver(f, inMsg.totalFrags, ra)
        \/ InDeliver(f, inMsg.totalFrags + 1, ra)

SpecIn == InInit /\ [][InNext]_vars

(***************************************************************************)
(* Claims about one InboundMessage (checked under SpecIn).                 *)
(***************************************************************************)
\* Number of leading occupied slots of a staging ring.
RECURSIVE StagedRun(_)
StagedRun(ring) ==
    IF ring = <<>> \/ Head(ring) = NoPayload THEN 0 ELSE 1 + StagedRun(Tail(ring))

InAppendedInOrder ==
    inBuf = Message(0, 1, inMsg.firstMissingFrag)

InScenario03214 ==
    inArrived = <<0, 3, 2, 1, 4>> => inTrace = <<0, 1, 1, 1, 4, 5>>

InAdvanceStep ==
    LET hit == /\ inLast'.totalFrags = inMsg.totalFrags
               /\ inLast'.fragNumber = inMsg.firstMissingFrag
    IN  /\ inMsg'.firstMissingFrag # inMsg.firstMissingFrag => hit
        /\ hit => inMsg'.firstMissingFrag =
                     inMsg.firstMissingFrag + 1 + StagedRun(inMsg.dataStagingRing)

\* C3: the fragments appended to dataBuffer are exactly fragments
\* 0..firstMissingFrag-1, once each and in ascending order, for every arrival
\* order; firstMissingFrag moves only when the fragment at firstMissingFrag
\* arrives and then jumps over every contiguous staged fragment; the arrival
\* order 0,3,2,1,4 gives firstMissingFrag 0,1,1,1,4,5.
C3_AppendedPrefix ==
    /\ [](InAppendedInOrder /\ InScenario03214)
    /\ [][InAdvanceStep]_vars

C3_Witness ==
    /\ inArrived = <<0, 3, 2, 1, 4>>
    /\ inTrace = <<0, 1, 1, 1, 4, 5>>
    /\ inBuf = Message(0, 1, 5)

\* The fragment was appended before, or its ring slot is occupied.
InIsDuplicate(m, pkt) ==
    /\ pkt.totalFrags = m.totalFrags
    /\ \/ pkt.fragNumber < m.firstMissingFrag
       \/ /\ pkt.fragNumber > m.firstMissingFrag
          /\ pkt.fragNumber - m.firstMissingFrag <= MAX_STAGING_FRAGMENTS
          /\ m.dataStagingRing[pkt.fragNumber - m.firstMissingFrag] # NoPayload

\* C4: delivering again a DATA fragment that was already appended
\* (fragNumber < firstMissingFrag) or already staged (its slot is occupied)
\* leaves dataBuffer, firstMissingFrag and the staging ring unchanged.
C4_DuplicateIgnored ==
    [][InIsDuplicate(inMsg, inLast') =>
          /\ inBuf' = inBuf
          /\ inMsg'.firstMissingFrag = inMsg.firstMissingFrag
          /\ inMsg'.dataStagingRing = inMsg.dataStagingRing]_vars

C4_Witness ==
    /\ inArrived = <<0, 2, 2, 0>>
    /\ inBuf = Message(0, 1, 1)
    /\ inMsg.firstMissingFrag = 1
    /\ inMsg.dataStagingRing[1] = Payload(0, 1, 2)

(***************************************************************************)
(* Spec: one client transport with one Service, one server transport, and  *)
(* the datagram network between them.                                      *)
(***************************************************************************)
\* SessionTable<ServerSession>::get(): a slot of the free list, or a new
\* session at the end of the vector.
TableGet(table) ==
    IF table.free # <<>>
    THEN [slot |-> Head(table.free),
          table |-> [table EXCEPT !.free = Tail(@)]]
    ELSE [slot |-> Len(table.sessions),
          table |-> [table EXCEPT !.sessions =
                        Append(@, NewServerSession(Len(table.sessions)))]]

\* SessionTable<ServerSession>::expire() trying to reclaim slot victim
\* (-1: no session is old enough).
TableExpire(table, victim) ==
    IF victim < 0 THEN table
    ELSE LET r == ServerExpire(table.sessions[victim + 1])
         IN  IF r.ok
             THEN [sessions |-> [table.sessions EXCEPT ![victim + 1] = r.session],
                   free |-> <<victim>> \o table.free]
             ELSE table

\* The sessions expire() may try: in use, and idle since an earlier tick.
ExpireCandidates(table) ==
    {0 - 1} \cup {i \in 0..(Len(table.sessions) - 1) :
                     /\ table.sessions[i + 1].lastActivityTime # 0
                     /\ table.sessions[i + 1].lastActivityTime < now}

\* rdtsc() moves on.
Tick ==
    /\ now < MaxNow
    /\ now' = now + 1
    /\ UNCHANGED unitVars
    /\ UNCHANGED <<net, rpcs, replied, clientSessions, serverSessions,
                   serverReadyQueue, serving, tokens>>

\* Fragments of the requests handed to clientSend() so far.
RECURSIVE RequestFrags(_, _)
RequestFrags(rp, r) ==
    IF r = 0 THEN 0 ELSE Len(rp[r].requestBuffer) + RequestFrags(rp, r - 1)

\* clientSend() with a request of n fragments: the ClientRpc is constructed
\* and started on the Service's session (a new one on the first call).
ClientSend(r, n) ==
    /\ rpcs[r].state = "IDLE"
    /\ \A q \in 1..(r - 1) : rpcs[q].state # "IDLE"
    /\ RequestFrags(rpcs, MaxRpcs) + n <= MaxRequestFrags
    /\ LET rp == [rpcs EXCEPT ![r] = [state |-> "IN_PROGRESS",
                                      requestBuffer |-> Message(0, r, n),
                                      responseBuffer |-> <<>>]]
           s0 == IF clientSessions = <<>> THEN NewClientSession(0)
                 ELSE clientSessions[1]
           open == IF ClientIsConnected(s0) THEN {} ELSE {ClientConnect(s0)}
           st == ClientStartRpc(s0, rp, r, now)
       IN  /\ rpcs' = rp
           /\ clientSessions' = IF clientSessions = <<>> THEN <<st.session>>
                                ELSE [clientSessions EXCEPT ![1] = st.session]
           /\ net' = net \cup open \cup st.out
    /\ UNCHANGED unitVars
    /\ UNCHANGED <<now, replied, serverSessions, serverReadyQueue, serving, tokens>>

\* tryProcessPacket() on a CLIENT_TO_SERVER datagram whose hint and token
\* name a session.
DeliverToServerSession(pkt) ==
    /\ pkt \in net
    /\ pkt.direction = "CLIENT_TO_SERVER"
    /\ pkt.serverSessionHint < Len(serverSessions.sessions)
    /\ LET s == serverSessions.sessions[pkt.serverSessionHint + 1]
       IN  /\ s.token = pkt.sessionToken
           /\ LET r == ServerProcessInboundPacket(s, serverReadyQueue, pkt, now)
              IN  /\ serverSessions' = [serverSessions EXCEPT
                                           !.sessions[pkt.serverSessionHint + 1] = r.session]
                  /\ serverReadyQueue' = r.queue
                  /\ net' = net \cup r.out
    /\ UNCHANGED unitVars
    /\ UNCHANGED <<now, rpcs, replied, clientSessions, serving, tokens>>

\* A dispatch that never finds the hinted session.
NoServerSessionForAny(pkt) == TRUE

\* Hint out of range or token mismatch.
NoServerSessionFor(pkt) ==
    IF pkt.serverSessionHint < Len(serverSessions.sessions)
    THEN serverSessions.sessions[pkt.serverSessionHint + 1].token # pkt.sessionToken
    ELSE TRUE

\* tryProcessPacket() on a SESSION_OPEN request: expire, get, startSession.
DeliverSessionOpen(pkt, victim) ==
    /\ pkt \in net
    /\ pkt.direction = "CLIENT_TO_SERVER"
    /\ NoServerSessionFor(pkt)
    /\ pkt.payloadType = "SESSION_OPEN"
    /\ tokens < MaxTokens
    /\ victim \in ExpireCandidates(serverSessions)
    /\ LET g == TableGet(TableExpire(serverSessions, victim))
       IN  /\ g.slot < MaxServerSessions
           /\ LET r == ServerStartSession(g.table.sessions[g.slot + 1],
                                          pkt.clientSessionHint, tokens + 1, now)
              IN  /\ serverSessions' = [g.table EXCEPT !.sessions[g.slot + 1] = r.session]
                  /\ net' = net \cup r.out
    /\ tokens' = tokens + 1
    /\ UNCHANGED unitVars
    /\ UNCHANGED <<now, rpcs, replied, clientSessions, serverReadyQueue, serving>>

\* tryProcessPacket() on any other CLIENT_TO_SERVER datagram: BAD_SESSION.
DeliverBadSession(pkt) ==
    /\ pkt \in net
    /\ pkt.direction = "CLIENT_TO_SERVER"
    /\ NoServerSessionFor(pkt)
    /\ pkt.payloadType # "SESSION_OPEN"
    /\ net' = net \cup {Header("SERVER_TO_CLIENT", "BAD_SESSION", pkt.sessionToken,
                                pkt.rpcId, pkt.clientSessionHint,
                                pkt.serverSessionHint, pkt.channelId)}
    /\ UNCHANGED unitVars
    /\ UNCHANGED <<now, rpcs, replied, clientSessions, serverSessions,
                   serverReadyQueue, serving, tokens>>

\* tryProcessPacket() on a SERVER_TO_CLIENT datagram.
DeliverToClient(pkt) ==
    /\ pkt \in net
    /\ pkt.direction = "SERVER_TO_CLIENT"
    /\ pkt.clientSessionHint < Len(clientSessions)
    /\ LET r == ClientProcessInboundPacket(clientSessions[pkt.clientSessionHint + 1],
                                           rpcs, pkt, now)
       IN  /\ \A q \in 1..MaxRpcs : Len(r.rpcs[q].responseBuffer) <= MaxResponseLen
           /\ clientSessions' = [clientSessions EXCEPT
                                    ![pkt.clientSessionHint + 1] = r.session]
           /\ rpcs' = r.rpcs
           /\ net' = net \cup r.out
    /\ UNCHANGED unitVars
    /\ UNCHANGED <<now, replied, serverSessions, serverReadyQueue, serving, tokens>>

\* fireTimers() reaching the inbound timer of a client channel.
FireInboundTimer(channelId) ==
    /\ clientSessions # <<>>
    /\ channelId < clientSessions[1].numChannels
    /\ LET m == clientSessions[1].channels[channelId + 1].inboundMsg
       IN  m.when # 0 /\ m.when <= now
    /\ LET r == ClientFireInboundTimer(clientSessions[1], rpcs, channelId, now)
       IN  /\ clientSessions' = [clientSessions EXCEPT ![1] = r.session]
           /\ rpcs' = r.rpcs
           /\ net' = net \cup r.out
    /\ UNCHANGED unitVars
    /\ UNCHANGED <<now, replied, serverSessions, serverReadyQueue, serving, tokens>>

\* fireTimers() reaching the outbound timer of a client channel.
FireOutboundTimer(channelId) ==
    /\ clientSessions # <<>>
    /\ channelId < clientSessions[1].numChannels
    /\ LET m == clientSessions[1].channels[channelId + 1].outboundMsg
       IN  m.when # 0 /\ m.when <= now
    /\ LET r == ClientFireOutboundTimer(clientSessions[1], rpcs, channelId, now)
       IN  /\ clientSessions' = [clientSessions EXCEPT ![1] = r.session]
           /\ rpcs' = r.rpcs
           /\ net' = net \cup r.out
    /\ UNCHANGED unitVars
    /\ UNCHANGED <<now, replied, serverSessions, serverReadyQueue, serving, tokens>>

\* serverRecv() with a non-empty ready queue.
ServerRecv ==
    /\ serverReadyQueue # <<>>
    /\ serving' = serving \cup {Head(serverReadyQueue)}
    /\ serverReadyQueue' = Tail(serverReadyQueue)
    /\ UNCHANGED unitVars
    /\ UNCHANGED <<now, net, rpcs, replied, clientSessions, serverSessions, tokens>>

\* Where the ServerRpc named id lives: <<slot, channelId>>.
ServerRpcHolders(id) ==
    {<<i, c>> \in (0..(Len(serverSessions.sessions) - 1))
                    \X (0..(NUM_CHANNELS_PER_SESSION - 1)) :
        serverSessions.sessions[i + 1].channels[c + 1].currentRpc.id = id}

\* The server fills replyPayload with an n-fragment reply to the request it
\* read (no longer than the request) and calls ServerRpc::sendReply().
ServerSendReply(id, n) ==
    /\ id \in serving
    /\ ServerRpcHolders(id) # {}
    /\ LET h == CHOOSE x \in ServerRpcHolders(id) : TRUE
           s == serverSessions.sessions[h[1] + 1]
           rpc == s.channels[h[2] + 1].currentRpc
           s1 == [s EXCEPT !.channels[h[2] + 1].currentRpc.replyPayload =
                              Message(1, rpc.recvPayload[1][2], n)]
           r == ServerBeginSending(s1, h[2], now)
       IN  /\ s.channels[h[2] + 1].state = "PROCESSING"
           /\ n <= Len(rpc.recvPayload)
           /\ serverSessions' = [serverSessions EXCEPT !.sessions[h[1] + 1] = r.session]
           /\ net' = net \cup r.out
    /\ serving' = serving \ {id}
    /\ UNCHANGED unitVars
    /\ UNCHANGED <<now, rpcs, replied, clientSessions, serverReadyQueue, tokens>>

\* getReply() on an RPC clientSend() returned, leaving its loop.
GetReply(r) ==
    /\ rpcs[r].state # "IDLE"
    /\ replied[r] = "none"
    /\ GetReplyOutcome(rpcs[r].state) # "poll"
    /\ replied' = [replied EXCEPT ![r] = GetReplyOutcome(rpcs[r].state)]
    /\ UNCHANGED unitVars
    /\ UNCHANGED <<now, net, rpcs, clientSessions, serverSessions,
                   serverReadyQueue, serving, tokens>>

Init == InIdle /\ OutIdle /\ TimerIdle /\ SysInit

Next ==
    \/ Tick
    \/ \E r \in 1..MaxRpcs, n \in 1..MaxFrags : ClientSend(r, n)
    \/ \E pkt \in net : DeliverToServerSession(pkt)
    \/ \E pkt \in net, victim \in (0 - 1)..(MaxServerSessions - 1) :
           DeliverSessionOpen(pkt, victim)
    \/ \E pkt \in net : DeliverBadSession(pkt)
    \/ \E pkt \in net : DeliverToClient(pkt)
    \/ \E c \in 0..(MAX_NUM_CHANNELS_PER_SESSION - 1) : FireInboundTimer(c)
    \/ \E c \in 0..(MAX_NUM_CHANNELS_PER_SESSION - 1) : FireOutboundTimer(c)
    \/ ServerRecv
    \/ \E id \in serving, n \in 1..MaxFrags : ServerSendReply(id, n)
    \/ \E r \in 1..MaxRpcs : GetReply(r)

Spec == Init /\ [][Next]_vars

(***************************************************************************)
(* SpecLive: Spec with the scheduling the transport's users provide: poll() *)
(* keeps running the timers, the server keeps calling serverRecv() and      *)
(* sendReply(), callers stay in getReply(), and every datagram but those of *)
(* the session handshake (sent once by connect() and startSession(), never  *)
(* again) keeps arriving.                                                   *)
(***************************************************************************)
DeliverRetransmitted ==
    \E pkt \in net :
        /\ pkt.payloadType # "SESSION_OPEN"
        /\ \/ DeliverToServerSession(pkt)
           \/ DeliverBadSession(pkt)
           \/ DeliverToClient(pkt)

Fairness ==
    /\ WF_vars(Tick)
    /\ WF_vars(\E c \in 0..(MAX_NUM_CHANNELS_PER_SESSION - 1) : FireInboundTimer(c))
    /\ WF_vars(\E c \in 0..(MAX_NUM_CHANNELS_PER_SESSION - 1) : FireOutboundTimer(c))
    /\ WF_vars(ServerRecv)
    /\ WF_vars(\E id \in serving, n \in 1..MaxFrags : ServerSendReply(id, n))
    /\ WF_vars(\E r \in 1..MaxRpcs : GetReply(r))
    /\ WF_vars(DeliverRetransmitted)

SpecLive == Init /\ [][Next]_vars /\ Fairness

(***************************************************************************)
(* Claims about the transport (checked under Spec).                        *)
(***************************************************************************)
\* The ServerRpc objects named on serverReadyQueue that still exist.
QueuedServerRpcs ==
    {serverSessions.sessions[h[1] + 1].channels[h[2] + 1].currentRpc :
        h \in UNION {ServerRpcHolders(serverReadyQueue[i]) :
                        i \in DOMAIN serverReadyQueue}}

RequestIntact ==
    \A rpc \in QueuedServerRpcs :
        /\ rpc.recvPayload # <<>>
        /\ rpc.recvPayload = rpcs[rpc.recvPayload[1][2]].requestBuffer

ReplyIntact ==
    \A r \in 1..MaxRpcs :
        rpcs[r].state = "COMPLETED" =>
            \E n \in 1..MaxFrags : rpcs[r].responseBuffer = Message(1, r, n)

\* C1: a ServerRpc on serverReadyQueue holds exactly the fragments of the
\* client's request for that RPC, in order, and the response buffer of a
\* COMPLETED ClientRpc is exactly a reply the server produced for that RPC,
\* never fragments of another RPC or of an earlier session incarnation.
C1_RoundTrip == RequestIntact /\ ReplyIntact

\* C2: while timers keep firing, the server keeps replying and retransmitted
\* fragments keep arriving, every ClientRpc that is IN_PROGRESS is eventually
\* COMPLETED (and getReply() returns).
C2_EventuallyCompleted ==
    \A r \in 1..MaxRpcs :
        (rpcs[r].state = "IN_PROGRESS") ~> (rpcs[r].state = "COMPLETED")

\* Elements of a sequence.
Range(q) == {q[i] : i \in DOMAIN q}

\* The ServerRpc named id is alive, completely reassembled, and its channel
\* waits for the reply.
Reassembled(id) ==
    \E h \in ServerRpcHolders(id) :
        LET ch == serverSessions.sessions[h[1] + 1].channels[h[2] + 1]
        IN  /\ ch.state = "PROCESSING"
            /\ ch.inboundMsg.firstMissingFrag = ch.inboundMsg.totalFrags
            /\ Len(ch.currentRpc.recvPayload) = ch.inboundMsg.totalFrags

\* C5: a ServerRpc is on serverReadyQueue only after its request was
\* completely reassembled (firstMissingFrag = totalFrags), and the queue hands
\* each such RPC to serverRecv() once: no RPC is queued twice or queued again
\* while the server works on it.
C5_ReadyQueue ==
    /\ \A i \in DOMAIN serverReadyQueue : Reassembled(serverReadyQueue[i])
    /\ \A i, j \in DOMAIN serverReadyQueue :
           i # j => serverReadyQueue[i] # serverReadyQueue[j]
    /\ Range(serverReadyQueue) \cap serving = {}

ChannelQueue(cs) == IF cs = <<>> THEN <<>> ELSE cs[1].channelQueue
CurrentRpcs(cs) ==
    IF cs = <<>> THEN {}
    ELSE {cs[1].channels[i].currentRpc : i \in 1..cs[1].numChannels} \ {NoRpc}

QueueFifoStep ==
    LET q == ChannelQueue(clientSessions)
        q2 == ChannelQueue(clientSessions')
        cur == CurrentRpcs(clientSessions)
        cur2 == CurrentRpcs(clientSessions')
    IN  /\ \A i \in DOMAIN q :
               q[i] \notin Range(q2) =>
                   /\ \A j \in 1..(i - 1) : q[j] \notin Range(q2)
                   /\ q[i] \in cur2 \/ rpcs'[q[i]].state = "ABORTED"
        /\ \A i, j \in DOMAIN q :
               (i < j /\ q[i] \in Range(q2)) =>
                   \E k, l \in DOMAIN q2 : k < l /\ q2[k] = q[i] /\ q2[l] = q[j]
        /\ \A r \in cur2 \ cur : r \in Range(q) \/ q = <<>>
        /\ \A r \in Range(q2) \ Range(q) :
               \A i \in DOMAIN q2 : q2[i] \in Range(q) =>
                   \E k \in DOMAIN q2 : k > i /\ q2[k] = r

\* C7: RPCs started while no channel is free wait in channelQueue; they leave
\* it from the head only, to a channel (or aborted by close()), new entries
\* join at the tail, and no RPC gets a channel while another one waits.
C7_QueueFifo == [][QueueFifoStep]_vars

C7_Witness ==
    /\ clientSessions # <<>>
    /\ clientSessions[1].numChannels = 1
    /\ rpcs[1].state = "COMPLETED"
    /\ clientSessions[1].channels[1].currentRpc = 2
    /\ clientSessions[1].channels[1].rpcId = 1

RpcStateStep ==
    \A r \in 1..MaxRpcs :
        rpcs'[r].state # rpcs[r].state =>
            \/ rpcs[r].state = "IDLE" /\ rpcs'[r].state = "IN_PROGRESS"
            \/ rpcs[r].state = "IN_PROGRESS"
                   /\ rpcs'[r].state \in {"COMPLETED", "ABORTED"}

GetReplyAgrees ==
    \A r \in 1..MaxRpcs :
        /\ replied[r] = "returned" => rpcs[r].state = "COMPLETED"
        /\ replied[r] = "thrown" => rpcs[r].state = "ABORTED"

\* C8: the state of a ClientRpc moves IDLE -> IN_PROGRESS -> COMPLETED or
\* ABORTED only, COMPLETED and ABORTED are final, and getReply() returns
\* normally only on a COMPLETED RPC and throws only on an ABORTED one.
C8_RpcStates == [][RpcStateStep]_vars /\ []GetReplyAgrees

C8_Witness ==
    /\ replied[1] = "thrown"
    /\ replied[2] = "returned"

\* C9: the response buffer of an ABORTED ClientRpc holds no response
\* fragment.
C9_AbortedEmpty ==
    \A r \in 1..MaxRpcs : rpcs[r].state = "ABORTED" => rpcs[r].responseBuffer = <<>>

CloseStep ==
    (\E r \in 1..MaxRpcs : rpcs[r].state # "ABORTED" /\ rpcs'[r].state = "ABORTED") =>
        /\ \A r \in CurrentRpcs(clientSessions) \cup Range(ChannelQueue(clientSessions)) :
               rpcs'[r].state = "ABORTED"
        /\ clientSessions'[1].channelQueue = <<>>
        /\ clientSessions'[1].numChannels = 0
        /\ clientSessions'[1].channels = <<>>
        /\ clientSessions'[1].token = INVALID_TOKEN
        /\ clientSessions'[1].serverSessionHint = INVALID_HINT
        /\ \A r \in 1..MaxRpcs : rpcs'[r].state # "IN_PROGRESS"

\* C10: close() leaves every RPC that was a channel's currentRpc or waited
\* in channelQueue ABORTED, channelQueue empty, the session without channels
\* and with token and serverSessionHint INVALID; no RPC stays IN_PROGRESS.
C10_CloseAbortsAll == [][CloseStep]_vars

C10_Witness ==
    /\ rpcs[1].state = "ABORTED"
    /\ rpcs[2].state = "ABORTED"
    /\ clientSessions[1].numChannels = 0
    /\ clientSessions[1].token = INVALID_TOKEN

\* The RPCs the channels of a session carry, in channel order.
CurrentInOrder(s) ==
    SelectSeq([i \in 1..s.numChannels |-> s.channels[i].currentRpc],
              LAMBDA x : x # NoRpc)

\* The BAD_SESSION datagrams sent so far that the client's dispatch would hand
\* to the BAD_SESSION case of session s now.
BadSessionFor(s) ==
    {pkt \in net : /\ pkt.direction = "SERVER_TO_CLIENT"
                   /\ pkt.payloadType = "BAD_SESSION"
                   /\ pkt.clientSessionHint = s.id
                   /\ pkt.channelId < s.numChannels
                   /\ s.channels[pkt.channelId + 1].rpcId = pkt.rpcId}

\* The SESSION_OPEN responses sent so far that session s would accept now.
SessionOpenFor(s) ==
    {pkt \in net : /\ pkt.direction = "SERVER_TO_CLIENT"
                   /\ pkt.payloadType = "SESSION_OPEN"
                   /\ pkt.clientSessionHint = s.id
                   /\ s.numChannels = 0}

BadSessionRequeues ==
    \A i \in DOMAIN clientSessions : \A pkt \in BadSessionFor(clientSessions[i]) :
        LET s == clientSessions[i]
            r == ClientProcessInboundPacket(s, rpcs, pkt, now)
        IN  /\ r.session.channelQueue = s.channelQueue \o CurrentInOrder(s)
            /\ r.rpcs = rpcs
            /\ r.session.numChannels = 0
            /\ r.session.channels = <<>>
            /\ r.session.token = INVALID_TOKEN
            /\ r.session.serverSessionHint = INVALID_HINT
            /\ \E p \in r.out : /\ p.direction = "CLIENT_TO_SERVER"
                                /\ p.payloadType = "SESSION_OPEN"
                                /\ p.clientSessionHint = s.id

SessionOpenDrains ==
    \A i \in DOMAIN clientSessions : \A pkt \in SessionOpenFor(clientSessions[i]) :
        LET s == clientSessions[i]
            q == s.channelQueue
            r == ClientProcessInboundPacket(s, rpcs, pkt, now)
            n == r.session.numChannels
            k == Min(n, Len(q))
        IN  /\ n = Min(pkt.maxChannelId + 1, MAX_NUM_CHANNELS_PER_SESSION)
            /\ r.session.token = pkt.sessionToken
            /\ r.session.serverSessionHint = pkt.serverSessionHint
            /\ r.rpcs = rpcs
            /\ r.session.channelQueue = SubSeq(q, k + 1, Len(q))
            /\ \A c \in 1..n :
                   IF c <= k
                   THEN /\ r.session.channels[c].currentRpc = q[c]
                        /\ r.session.channels[c].state = "SENDING"
                        /\ \E p \in r.out :
                               /\ p.payloadType = "DATA"
                               /\ p.sessionToken = pkt.sessionToken
                               /\ p.channelId = c - 1
                               /\ p.payload = rpcs[q[c]].requestBuffer[p.fragNumber + 1]
                   ELSE /\ r.session.channels[c].currentRpc = NoRpc
                        /\ r.session.channels[c].state = "IDLE"

Hinted(pkt) ==
    /\ pkt.serverSessionHint < Len(serverSessions.sessions)
    /\ serverSessions.sessions[pkt.serverSessionHint + 1].token = pkt.sessionToken

\* The step is tryProcessPacket() on the CLIENT_TO_SERVER datagram pkt.
ServerDispatch(pkt) ==
    \/ DeliverToServerSession(pkt)
    \/ \E victim \in (0 - 1)..(MaxServerSessions - 1) : DeliverSessionOpen(pkt, victim)
    \/ DeliverBadSession(pkt)

DispatchToSession(pkt) ==
    LET slot == pkt.serverSessionHint + 1
    IN  /\ Len(serverSessions'.sessions) = Len(serverSessions.sessions)
        /\ serverSessions'.free = serverSessions.free
        /\ \A i \in DOMAIN serverSessions.sessions :
               i # slot => serverSessions'.sessions[i] = serverSessions.sessions[i]
        /\ serverSessions'.sessions[slot].lastActivityTime = now
        /\ serverSessions'.sessions[slot].token = pkt.sessionToken
        /\ tokens' = tokens
        /\ \A p \in net' \ net : p.payloadType \in {"DATA", "ACK"}

DispatchSessionOpen(pkt) ==
    /\ tokens' = tokens + 1
    /\ serverReadyQueue' = serverReadyQueue
    /\ \E i \in DOMAIN serverSessions'.sessions :
           LET s == serverSessions'.sessions[i]
           IN  /\ s.token = tokens'
               /\ s.id = i - 1
               /\ s.clientSessionHint = pkt.clientSessionHint
               /\ s.lastActivityTime = now
               /\ i - 1 \notin Range(serverSessions'.free)
               /\ \A c \in 1..NUM_CHANNELS_PER_SESSION : s.channels[c].state = "IDLE"
               /\ \E p \in net' :
                      /\ p.direction = "SERVER_TO_CLIENT"
                      /\ p.payloadType = "SESSION_OPEN"
                      /\ p.sessionToken = s.token
                      /\ p.serverSessionHint = s.id
                      /\ p.clientSessionHint = pkt.clientSessionHint
                      /\ p.maxChannelId = NUM_CHANNELS_PER_SESSION - 1

DispatchBadSession(pkt) ==
    /\ serverSessions' = serverSessions
    /\ serverReadyQueue' = serverReadyQueue
    /\ tokens' = tokens
    /\ \E p \in net' :
           /\ net' = net \cup {p}
           /\ p.direction = "SERVER_TO_CLIENT"
           /\ p.payloadType = "BAD_SESSION"
           /\ p.rpcId = pkt.rpcId
           /\ p.channelId = pkt.channelId
           /\ p.sessionToken = pkt.sessionToken
           /\ p.clientSessionHint = pkt.clientSessionHint
           /\ p.serverSessionHint = pkt.serverSessionHint

DispatchStep ==
    \A pkt \in net :
        ServerDispatch(pkt) =>
            IF Hinted(pkt) THEN DispatchToSession(pkt)
            ELSE IF pkt.payloadType = "SESSION_OPEN" THEN DispatchSessionOpen(pkt)
            ELSE DispatchBadSession(pkt)

\* C12: tryProcessPacket() on a CLIENT_TO_SERVER datagram does exactly one of
\* three things: with the hint in range and the token equal to the hinted
\* session's, that session processes it and nothing else changes; otherwise a
\* SESSION_OPEN allocates and starts a ServerSession; otherwise a BAD_SESSION
\* is sent back that echoes rpcId, channelId, sessionToken and both hints, and
\* no server session changes.
C12_Dispatch == [][DispatchStep]_vars

\* All three branches were taken.
C12_Witness ==
    /\ tokens = 2
    /\ \E pkt \in net : pkt.payloadType = "BAD_SESSION" /\ pkt.rpcId = 0
    /\ \E i \in DOMAIN serverSessions.sessions :
           serverSessions.sessions[i].channels[1].state = "RECEIVING"

\* A datagram other than the SESSION_OPEN response (which brings the token)
\* changes a client session only when it carries that session's token.
ClientTokenStep ==
    \A pkt \in net :
        (/\ DeliverToClient(pkt)
         /\ pkt.payloadType # "SESSION_OPEN"
         /\ <<clientSessions, rpcs>>' # <<clientSessions, rpcs>>)
            => pkt.sessionToken = clientSessions[pkt.clientSessionHint + 1].token

\* A datagram reaches a server session only when it carries that session's
\* token.
ServerTokenStep ==
    \A pkt \in net :
        DeliverToServerSession(pkt) =>
            pkt.sessionToken = serverSessions.sessions[pkt.serverSessionHint + 1].token

\* C13: in both directions a datagram is handed to the session at the hinted
\* table index only if its sessionToken equals that session's current token;
\* a datagram of an expired or earlier session incarnation is never processed
\* by the session that occupies the slot now.
C13_TokenVerified == [][ClientTokenStep /\ ServerTokenStep]_vars

(***************************************************************************)
(* SpecExpire: the transport of Spec while no time passes (no timer fires,  *)
(* no server session grows old), with getClientSession() called at any     *)
(* time.                                                                   *)
(***************************************************************************)
MaxClientSessions == 2

\* getClientSession(): clientSessions.expire() tries to reclaim the session
\* in slot victim, a slot reclaimed goes to the free list and get() takes it
\* from there; otherwise get() adds a session at the end of the table.
GetClientSession(victim) ==
    /\ IF clientSessions = <<>>
       THEN /\ victim = 0
            /\ clientSessions' = <<NewClientSession(0)>>
            /\ rpcs' = rpcs
       ELSE /\ victim < Len(clientSessions)
            /\ LET r == ClientExpire(clientSessions[victim + 1], rpcs)
               IN  IF r.ok
                   THEN /\ clientSessions' =
                              [clientSessions EXCEPT ![victim + 1] = r.session]
                        /\ rpcs' = r.rpcs
                   ELSE /\ Len(clientSessions) < MaxClientSessions
                        /\ clientSessions' =
                              Append(clientSessions,
                                     NewClientSession(Len(clientSessions)))
                        /\ rpcs' = r.rpcs
    /\ UNCHANGED unitVars
    /\ UNCHANGED <<now, net, replied, serverSessions, serverReadyQueue, serving,
                   tokens>>

NextExpire ==
    \/ \E r \in 1..MaxRpcs, n \in 1..MaxFrags : ClientSend(r, n)
    \/ \E pkt \in net : DeliverToServerSession(pkt)
    \/ \E pkt \in net : DeliverSessionOpen(pkt, 0 - 1)
    \/ \E pkt \in net : DeliverToClient(pkt)
    \/ ServerRecv
    \/ \E id \in serving, n \in 1..MaxFrags : ServerSendReply(id, n)
    \/ \E r \in 1..MaxRpcs : GetReply(r)
    \/ \E victim \in 0..(MaxClientSessions - 1) : GetClientSession(victim)

SpecExpire == Init /\ [][NextExpire]_vars

\* The session carries an RPC: on a channel or in channelQueue.
ClientBusy(s) == CurrentInOrder(s) # <<>> \/ s.channelQueue # <<>>

ClientExpireRefuses ==
    \A i \in DOMAIN clientSessions :
        LET s == clientSessions[i]
            r == ClientExpire(s, rpcs)
        IN  /\ r.ok <=> ~ClientBusy(s)
            /\ r.rpcs = rpcs
            /\ ~r.ok => r.session = s
            /\ r.ok => /\ r.session.numChannels = 0
                       /\ r.session.token = INVALID_TOKEN
                       /\ r.session.serverSessionHint = INVALID_HINT

GetClientSessionStep ==
    (\E victim \in 0..(MaxClientSessions - 1) : GetClientSession(victim)) =>
        /\ \A r \in 1..MaxRpcs : rpcs'[r].state = rpcs[r].state
        /\ \A i \in DOMAIN clientSessions :
               ClientBusy(clientSessions[i]) => clientSessions'[i] = clientSessions[i]

\* C15: ClientSession::expire() succeeds only when no channel has a current
\* RPC and channelQueue is empty; otherwise it returns false and changes
\* nothing, so getClientSession() never aborts an RPC and never touches a
\* session that carries one.
C15_ClientExpire == []ClientExpireRefuses /\ [][GetClientSessionStep]_vars

\* getClientSession() met the busy session (a second session was added), the
\* RPC went on and completed, and a later expire() closed the idle session.
C15_Witness ==
    /\ Len(clientSessions) = 2
    /\ rpcs[1].state = "COMPLETED"
    /\ rpcs[2].state = "IDLE"
    /\ clientSessions[1].numChannels = 0
    /\ clientSessions[1].token = INVALID_TOKEN

\* A channel of the server session is in PROCESSING.
ServerProcessing(s) ==
    \E c \in 1..NUM_CHANNELS_PER_SESSION : s.channels[c].state = "PROCESSING"

ServerExpireRefuses ==
    \A i \in DOMAIN serverSessions.sessions :
        LET s == serverSessions.sessions[i]
            r == ServerExpire(s)
        IN  /\ ServerProcessing(s) => ~r.ok /\ r.session = s
            /\ r.ok => /\ \A c \in 1..NUM_CHANNELS_PER_SESSION :
                              r.session.channels[c].state = "IDLE"
                       /\ r.session.token = INVALID_TOKEN
                       /\ r.session.lastActivityTime = 0

\* A slot that joins the free list or changes its token held no PROCESSING
\* channel, and its channels are IDLE afterwards.
ServerExpireStep ==
    \A i \in DOMAIN serverSessions.sessions :
        LET s == serverSessions.sessions[i]
            s2 == serverSessions'.sessions[i]
        IN  (\/ s2.token # s.token /\ s.token # INVALID_TOKEN
             \/ (i - 1) \in Range(serverSessions'.free) \ Range(serverSessions.free))
                => /\ ~ServerProcessing(s)
                   /\ \A c \in 1..NUM_CHANNELS_PER_SESSION :
                          /\ s2.channels[c].state = "IDLE"
                          /\ s2.channels[c].currentRpc = NoServerRpc

\* C14: ServerSession::expire() never reclaims a session with a channel in
\* PROCESSING, however old lastActivityTime is: it returns false and leaves
\* the session as it was; when it succeeds every channel is IDLE, token is
\* INVALID_TOKEN and lastActivityTime is 0.
C14_ServerExpire == []ServerExpireRefuses /\ [][ServerExpireStep]_vars

\* A session with a PROCESSING channel that was the only candidate when the
\* second SESSION_OPEN ran expire(), and is still there.
C14_Witness ==
    /\ Len(serverSessions.sessions) = 2
    /\ ServerProcessing(serverSessions.sessions[1])
    /\ serverSessions.sessions[1].token = 1
    /\ serverSessions.sessions[1].lastActivityTime
           < serverSessions.sessions[2].lastActivityTime

\* rpcId + 1 in the width of the field.
NextRpcId(id) == (id + 1) % RpcIdModulus

\* The RPC a client channel carries completes in this step.
ClientCompletes(ch) ==
    /\ ch.currentRpc # NoRpc
    /\ rpcs[ch.currentRpc].state # "COMPLETED"
    /\ rpcs'[ch.currentRpc].state = "COMPLETED"

\* A server channel allocates a ServerRpc in this step.
ServerAccepts(ch, ch2) ==
    ch2.currentRpc # NoServerRpc /\ ch2.currentRpc.id # ch.currentRpc.id

\* Client channels that exist before and after the step, and the server
\* channels of the slots for which same(s, s2) holds.
RpcIdStep(same(_, _)) ==
    /\ \A i \in DOMAIN clientSessions : \A c \in 1..clientSessions[i].numChannels :
           c <= clientSessions'[i].numChannels =>
               LET ch == clientSessions[i].channels[c]
                   ch2 == clientSessions'[i].channels[c]
               IN  ch2.rpcId = IF ClientCompletes(ch) THEN NextRpcId(ch.rpcId)
                               ELSE ch.rpcId
    /\ \A i \in DOMAIN serverSessions.sessions :
           same(serverSessions.sessions[i], serverSessions'.sessions[i]) =>
               \A c \in 1..NUM_CHANNELS_PER_SESSION :
                   LET ch == serverSessions.sessions[i].channels[c]
                       ch2 == serverSessions'.sessions[i].channels[c]
                   IN  ch2.rpcId = IF ServerAccepts(ch, ch2) THEN NextRpcId(ch.rpcId)
                                   ELSE ch.rpcId

AnySession(s, s2) == TRUE
SameIncarnation(s, s2) == s2.token = s.token

\* C16: a channel's rpcId never goes back and moves by exactly one per
\* completed (client) or newly accepted (server) RPC, over every operation:
\* completion, acceptance, session expire, close and BAD_SESSION reconnect.
C16_RpcIdMonotone == [][RpcIdStep(AnySession)]_vars

\* C16 as the code has it: while a session keeps its token, a channel's rpcId
\* changes only by one step of +1 (modulo 2^32; a server channel starts at ~0,
\* so its first RPC has rpcId 0), exactly when the client completes the
\* channel's RPC and exactly when the server accepts a new RPC; expire(),
\* close() and BAD_SESSION start the channels again at ~0 (server) and 0
\* (client).
C16_RpcIdWithinIncarnation == [][RpcIdStep(SameIncarnation)]_vars

C16_Witness ==
    /\ clientSessions # <<>>
    /\ clientSessions[1].numChannels = 1
    /\ clientSessions[1].token = 1
    /\ clientSessions[1].channels[1].rpcId = 1
    /\ serverSessions.sessions # <<>>
    /\ serverSessions.sessions[1].token = 1
    /\ serverSessions.sessions[1].channels[1].rpcId = 1
    /\ tokens = 1

(***************************************************************************)
(* SpecOut: the OutboundMessage of one client channel sending one request, *)
(* the InboundMessage of the server channel that receives it, and the      *)
(* datagrams between them (lost, duplicated, reordered, delayed).  After a  *)
(* BAD_SESSION the request is sent again from the start by the channel of   *)
(* the new session incarnation, which has the same channelId and rpcId; the *)
(* client compares no token, so the ACKs of the old incarnation still reach *)
(* the new OutboundMessage, while the server drops the old DATA.            *)
(***************************************************************************)
OutMaxFrags == 4
OutMaxNow == 3
OutMaxRestarts == 1

\* The fragments whose sentTimes entry is ACKED.
AckedFrags(m) ==
    {m.firstMissingFrag + i - 1 : i \in {j \in DOMAIN m.sentTimes : m.sentTimes[j] = ACKED}}

OutInit ==
    /\ \E n \in 1..OutMaxFrags :
           LET r == OutboundBeginSending(NewOutboundMessage(TRUE), Message(0, 1, n), 1)
           IN  /\ outMsg = r.msg
               /\ outLast = r.sent
               /\ outData = Range(r.sent)
               /\ outPeer = InboundInit(NewInboundMessage(FALSE), n, 1)
    /\ outAcks = {}
    /\ outAcked = {}
    /\ outNow = 1
    /\ outEra = 0
    /\ InIdle
    /\ TimerIdle
    /\ SysInit

OutTick ==
    /\ outNow < OutMaxNow
    /\ outNow' = outNow + 1
    /\ outLast' = <<>>
    /\ UNCHANGED <<outMsg, outPeer, outData, outAcks, outAcked, outEra>>
    /\ UNCHANGED <<inVars, timerVars, sysVars>>

\* The DATA fragment d = <<fragNumber, requestAck>> reaches the server
\* channel (ServerSession::processReceivedData in RECEIVING or PROCESSING).
OutDeliverData(d) ==
    /\ d \in outData
    /\ LET pkt == [fragNumber |-> d[1], totalFrags |-> outMsg.totalFrags,
                   requestAck |-> d[2], payload |-> Payload(0, 1, d[1])]
           r == InboundProcessReceivedData(outPeer, pkt, outNow)
       IN  /\ outPeer' = r.msg
           /\ outAcks' = outAcks \cup (IF r.ack THEN {InboundAck(r.msg)} ELSE {})
    /\ outLast' = <<>>
    /\ UNCHANGED <<outMsg, outData, outAcked, outNow, outEra>>
    /\ UNCHANGED <<inVars, timerVars, sysVars>>

\* The ACK a reaches the client channel in SENDING
\* (ClientSession::processReceivedAck).
OutDeliverAck(a) ==
    /\ a \in outAcks
    /\ outMsg.sendBuffer # NoBuffer
    /\ LET r == OutboundProcessReceivedAck(outMsg, a, outNow)
       IN  /\ outMsg' = r.msg
           /\ outLast' = r.sent
           /\ outData' = outData \cup Range(r.sent)
           /\ outAcked' = outAcked \cup AckedFrags(r.msg)
    /\ UNCHANGED <<outPeer, outAcks, outNow, outEra>>
    /\ UNCHANGED <<inVars, timerVars, sysVars>>

\* The message's timer fires: a retransmission by send(), or close() at
\* TIMEOUTS_UNTIL_ABORTING, which ends the message.
OutTimer ==
    /\ outMsg.when # 0
    /\ outMsg.when <= outNow
    /\ LET m == [outMsg EXCEPT !.when = 0, !.numTimeouts = @ + 1]
       IN  IF m.numTimeouts = TIMEOUTS_UNTIL_ABORTING
           THEN /\ outMsg' = OutboundClear(m)
                /\ outLast' = <<>>
                /\ outData' = {}
                /\ outAcked' = {}
           ELSE LET r == OutboundSend(m, outNow)
                IN  /\ outMsg' = r.msg
                    /\ outLast' = r.sent
                    /\ outData' = outData \cup Range(r.sent)
                    /\ outAcked' = outAcked
    /\ UNCHANGED <<outPeer, outAcks, outNow, outEra>>
    /\ UNCHANGED <<inVars, timerVars, sysVars>>

\* BAD_SESSION and the SESSION_OPEN response: the RPC is assigned to the
\* channel of the new incarnation, whose OutboundMessage starts the request
\* again, and the new server channel has received nothing.
OutRestart ==
    /\ outEra < OutMaxRestarts
    /\ outMsg.sendBuffer # NoBuffer
    /\ LET r == OutboundBeginSending(NewOutboundMessage(TRUE), outMsg.sendBuffer,
                                     outNow)
       IN  /\ outMsg' = r.msg
           /\ outLast' = r.sent
           /\ outData' = Range(r.sent)
           /\ outPeer' = InboundInit(NewInboundMessage(FALSE), r.msg.totalFrags, outNow)
    /\ outAcked' = {}
    /\ outEra' = outEra + 1
    /\ UNCHANGED <<outAcks, outNow>>
    /\ UNCHANGED <<inVars, timerVars, sysVars>>

OutNext ==
    \/ OutTick
    \/ \E d \in outData : OutDeliverData(d)
    \/ \E a \in outAcks : OutDeliverAck(a)
    \/ OutTimer
    \/ OutRestart

SpecOut == OutInit /\ [][OutNext]_vars

(***************************************************************************)
(* Claims about one OutboundMessage (checked under SpecOut).               *)
(***************************************************************************)
\* The fragments the last step handed to sendOneData.
LastSent == {outLast[k][1] : k \in DOMAIN outLast}

\* C17: a fragment whose sentTimes entry is (or ever was) ACKED is not
\* transmitted by send(), in the step that marks it and in every later one,
\* whatever timers fire and whatever ACKs arrive.
C17_AckedNotResent == LastSent \cap outAcked = {}

\* send() passed an ACKED entry and transmitted the fragment behind it.
C17_Witness ==
    /\ outEra = 0
    /\ \E f \in LastSent : \E g \in AckedFrags(outMsg) : g < f

\* The fragments this OutboundMessage has transmitted since beginSending().
EverSent == {d[1] : d \in outData}

\* C18: a fragment that was never sent is never marked ACKED and never
\* skipped over by an advance of firstMissingFrag, for every ACK that
\* processReceivedAck accepts (duplicated, reordered and delayed ones too).
C18_NeverSentNotAcked ==
    /\ outAcked \subseteq EverSent
    /\ \A f \in 0..(outMsg.firstMissingFrag - 1) : f \in EverSent

\* The same while the request was never started again: every ACK comes from
\* the receiver of this very message.
C18_FirstIncarnation == outEra = 0 => C18_NeverSentNotAcked

\* C19: in every reachable state of an OutboundMessage
\* firstMissingFrag <= numAcked <= firstMissingFrag + length of the sentTimes
\* ring, and firstMissingFrag <= totalFrags.
C19_NumAckedBounds ==
    /\ outMsg.firstMissingFrag <= outMsg.numAcked
    /\ outMsg.numAcked <= outMsg.firstMissingFrag + Len(outMsg.sentTimes)
    /\ outMsg.firstMissingFrag <= outMsg.totalFrags

\* An ACK moved firstMissingFrag and marked a staged fragment.
C19_Witness ==
    /\ outEra = 0
    /\ outMsg.firstMissingFrag > 0
    /\ outMsg.numAcked > outMsg.firstMissingFrag
    /\ outMsg.firstMissingFrag < outMsg.totalFrags

\* Fragments that were sent and are acknowledged neither by firstMissingFrag
\* nor by an ACKED entry.
InFlight ==
    EverSent \ ((0..(outMsg.firstMissingFrag - 1)) \cup AckedFrags(outMsg))

Sent(direction, payloadType) ==
    {p \in net : p.direction = direction /\ p.payloadType = payloadType}

\* One RPC whose request and reply each fit in one fragment has completed on
\* the only session ever opened, before any timeout could expire and with no
\* other RPC started.
SingleFragmentDone ==
    /\ now = 1
    /\ tokens = 1
    /\ Sent("SERVER_TO_CLIENT", "BAD_SESSION") = {}
    /\ rpcs[1].state = "COMPLETED"
    /\ rpcs[1].requestBuffer = Message(0, 1, 1)
    /\ rpcs[1].responseBuffer = Message(1, 1, 1)
    /\ rpcs[2].state = "IDLE"

OneDataEachWay ==
    /\ Cardinality(Sent("CLIENT_TO_SERVER", "DATA")) = 1
    /\ Cardinality(Sent("SERVER_TO_CLIENT", "DATA")) = 1

\* The client channel is IDLE again and its rpcId went from 0 to 1.
ClientChannelAdvanced ==
    /\ clientSessions[1].numChannels = 1
    /\ clientSessions[1].channels[1].state = "IDLE"
    /\ clientSessions[1].channels[1].currentRpc = NoRpc
    /\ clientSessions[1].channels[1].rpcId = 1

\* C21: a single-fragment RPC without loss: exactly one DATA packet and one
\* ACK packet travel in each direction, the channel ends IDLE and its rpcId
\* has advanced by 1.
C21_SingleFragment ==
    SingleFragmentDone =>
        /\ OneDataEachWay
        /\ Cardinality(Sent("CLIENT_TO_SERVER", "ACK")) = 1
        /\ Cardinality(Sent("SERVER_TO_CLIENT", "ACK")) = 1
        /\ ClientChannelAdvanced

\* C21 as the code has it: exactly one DATA packet travels in each direction
\* and no ACK at all (the last fragment of a message never asks for one); the
\* client channel ends IDLE with its rpcId advanced from 0 to 1, the server
\* channel has accepted rpcId 0 (one past ~0) and stays SENDING_WAITING.
C21_SingleFragmentNoAck ==
    SingleFragmentDone =>
        /\ OneDataEachWay
        /\ \A p \in Sent("CLIENT_TO_SERVER", "DATA") \cup Sent("SERVER_TO_CLIENT", "DATA") :
               ~p.requestAck /\ p.fragNumber = 0 /\ p.totalFrags = 1 /\ p.rpcId = 0
        /\ Sent("CLIENT_TO_SERVER", "ACK") = {}
        /\ Sent("SERVER_TO_CLIENT", "ACK") = {}
        /\ ClientChannelAdvanced
        /\ serverSessions.sessions[1].channels[1].state = "SENDING_WAITING"
        /\ serverSessions.sessions[1].channels[1].rpcId = 0

C21_Witness ==
    /\ SingleFragmentDone
    /\ replied[1] = "returned"
    /\ serverSessions.sessions[1].channels[1].outboundMsg.totalFrags = 1

(***************************************************************************)
(* Claims about the ACKs of one InboundMessage (checked under SpecIn).     *)
(***************************************************************************)
\* The vector with one bit per fragment of frags, the bit of fragment f at
\* position f - base.
RECURSIVE VectorOf(_, _)
VectorOf(frags, base) ==
    IF frags = {} THEN 0
    ELSE LET f == CHOOSE x \in frags : TRUE
         IN  Pow2(f - base) + VectorOf(frags \ {f}, base)

\* The receiver of the 6-fragment request once fragments 0,1,3,4,5 have
\* arrived: firstMissingFrag is 2, the ring holds 3, 4 and 5 in slots 0..2.
SixFragmentReceiver ==
    [totalFrags |-> 6, firstMissingFrag |-> 2,
     dataStagingRing |-> <<Payload(0, 1, 3), Payload(0, 1, 4), Payload(0, 1, 5),
                           NoPayload>>,
     when |-> 0, numTimeouts |-> 0, useTimer |-> FALSE]

\* The same loss on the longest request whose fragments all fit the model's
\* staging ring: a message of MAX_STAGING_FRAGMENTS + 3 fragments.
LossyFrags == 3..(MAX_STAGING_FRAGMENTS + 2)
\* All fragments but fragment 2 have arrived, in the order they were sent.
LossyArrived ==
    /\ inMsg.totalFrags = MAX_STAGING_FRAGMENTS + 3
    /\ Range(inArrived) = {0, 1} \cup LossyFrags
    /\ \A i, j \in DOMAIN inArrived : i < j => inArrived[i] <= inArrived[j]
LossyAckSent == LossyArrived /\ inAck # NoAck

\* Fragment 2 arrives at last.
LossyCompletes ==
    (/\ LossyArrived
     /\ inLast'.fragNumber = 2
     /\ inLast'.totalFrags = inMsg.totalFrags)
        => /\ inMsg'.firstMissingFrag = inMsg.totalFrags
           /\ inBuf' = Message(0, 1, inMsg.totalFrags)

NextRpcData(i, c) ==
    \E pkt \in net :
        /\ DeliverToServerSession(pkt)
        /\ pkt.serverSessionHint = i - 1
        /\ pkt.channelId = c - 1
        /\ pkt.payloadType = "DATA"
        /\ pkt.rpcId = NextRpcId(serverSessions.sessions[i].channels[c].rpcId)

\* The step is sendReply() (beginSending) for the ServerRpc of the channel.
BeginsSending(ch) ==
    \E n \in 1..MaxFrags : ServerSendReply(ch.currentRpc.id, n)

\* The step is a SESSION_OPEN whose SessionTable::expire() reclaims slot i.
ExpiresSlot(i) ==
    \E pkt \in net : DeliverSessionOpen(pkt, i - 1)

\* The channel's InboundMessage is complete after the step.
InboundCompletes(ch2) ==
    /\ ch2.inboundMsg.totalFrags > 0
    /\ ch2.inboundMsg.firstMissingFrag = ch2.inboundMsg.totalFrags

\* The last missing fragment of the reply is acknowledged in the step.
ReplyFullyAcked(ch, ch2) ==
    /\ ch.state = "SENDING_WAITING"
    /\ ch.outboundMsg.firstMissingFrag < ch.outboundMsg.totalFrags
    /\ ch2.outboundMsg.totalFrags = ch.outboundMsg.totalFrags
    /\ ch2.outboundMsg.firstMissingFrag = ch2.outboundMsg.totalFrags

\* The three transitions the claim and the code agree on, for every server
\* channel, with after(ch, ch2) as the rule for a fully acknowledged reply.
ServerChannelStep(after(_, _)) ==
    \A i \in DOMAIN serverSessions.sessions : \A c \in 1..NUM_CHANNELS_PER_SESSION :
        LET ch == serverSessions.sessions[i].channels[c]
            ch2 == serverSessions'.sessions[i].channels[c]
        IN  /\ (ch.state # "RECEIVING" /\ ch2.state = "RECEIVING") => NextRpcData(i, c)
            /\ (ch.state = "IDLE" /\ ch2.state # "IDLE") => NextRpcData(i, c)
            /\ (ch.state = "RECEIVING" /\ ~ExpiresSlot(i)) =>
                   (ch2.state = "PROCESSING" <=> InboundCompletes(ch2))
            /\ (ch.state # "PROCESSING" /\ ch2.state = "PROCESSING") =>
                   /\ InboundCompletes(ch2)
                   /\ ch.state = "RECEIVING" \/ NextRpcData(i, c)
            /\ (ch.state # "SENDING_WAITING" /\ ch2.state = "SENDING_WAITING") =>
                   ch.state = "PROCESSING" /\ BeginsSending(ch)
            /\ BeginsSending(ch) =>
                   ch.state = "PROCESSING" /\ ch2.state = "SENDING_WAITING"
            /\ ReplyFullyAcked(ch, ch2) => after(ch, ch2)

BecomesIdle(ch, ch2) == ch2.state = "IDLE"
StaysSendingWaiting(ch, ch2) ==
    ch2.state = "SENDING_WAITING" /\ ch2.currentRpc = ch.currentRpc

\* A channel becomes IDLE only when expire() reclaims its session.
IdleOnlyByExpire ==
    \A i \in DOMAIN serverSessions.sessions : \A c \in 1..NUM_CHANNELS_PER_SESSION :
        (/\ serverSessions.sessions[i].channels[c].state # "IDLE"
         /\ serverSessions'.sessions[i].channels[c].state = "IDLE") => ExpiresSlot(i)

\* C23: a server channel moves IDLE -> RECEIVING only on DATA of the next
\* RPC, RECEIVING -> PROCESSING exactly when the inbound message completes,
\* PROCESSING -> SENDING_WAITING only via beginSending, and
\* SENDING_WAITING -> IDLE when the reply is fully acknowledged.
C23_ServerChannel == [][ServerChannelStep(BecomesIdle)]_vars

\* C23 as the code has it: the first three transitions, and a channel whose
\* reply is fully acknowledged stays SENDING_WAITING with its ServerRpc; it
\* leaves SENDING_WAITING only for RECEIVING (or PROCESSING) on DATA of the
\* next RPC, which is accepted in every state, or for IDLE when expire()
\* reclaims the session.
C23_ServerChannelWaits ==
    [][ServerChannelStep(StaysSendingWaiting) /\ IdleOnlyByExpire]_vars

\* A reply was fully acknowledged and its channel is still SENDING_WAITING.
C23_Witness ==
    \E i \in DOMAIN serverSessions.sessions :
        LET ch == serverSessions.sessions[i].channels[1]
        IN  /\ ch.state = "SENDING_WAITING"
            /\ ch.outboundMsg.totalFrags > 0
            /\ ch.outboundMsg.firstMissingFrag = ch.outboundMsg.totalFrags

\* Ring slot i (element i + 1) is empty or holds the fragment numbered
\* firstMissingFrag + 1 + i, a fragment of the message.
RingHoldsNext ==
    \A i \in 0..(MAX_STAGING_FRAGMENTS - 1) :
        LET payload == inMsg.dataStagingRing[i + 1]
            fragNumber == inMsg.firstMissingFrag + 1 + i
        IN  payload # NoPayload =>
                /\ payload = Payload(0, 1, fragNumber)
                /\ fragNumber > inMsg.firstMissingFrag
                /\ fragNumber <= inMsg.firstMissingFrag + MAX_STAGING_FRAGMENTS
                /\ fragNumber < inMsg.totalFrags

\* The fragment delivered in the step is further ahead than the ring reaches.
TooFarDropped ==
    (/\ inLast'.totalFrags = inMsg.totalFrags
     /\ inLast'.fragNumber - inMsg.firstMissingFrag > MAX_STAGING_FRAGMENTS)
        => inMsg' = inMsg /\ inBuf' = inBuf

Bit(vector, i) == (vector \div Pow2(i)) % 2 = 1

\* The ACK the last delivery sent describes the message as it is now.
AckReports ==
    inAck # NoAck =>
        /\ inAck.firstMissingFrag = inMsg.firstMissingFrag
        /\ inAck.stagingVector < Pow2(MAX_STAGING_FRAGMENTS)
        /\ \A i \in 0..(MAX_STAGING_FRAGMENTS - 1) :
               LET fragNumber == inMsg.firstMissingFrag + 1 + i
               IN  /\ Bit(inAck.stagingVector, i)
                       <=> inMsg.dataStagingRing[i + 1] # NoPayload
                   /\ Bit(inAck.stagingVector, i)
                       <=> /\ inMsg.dataStagingRing[i + 1] = Payload(0, 1, fragNumber)
                           /\ \E k \in DOMAIN inArrived : inArrived[k] = fragNumber

\* A delivered fragment of the message is answered with an ACK exactly when
\* it has requestAck set; a fragment with another totalFrags never is.
AckOnRequest ==
    /\ inLast'.totalFrags = inMsg.totalFrags =>
           (inAck' # NoAck <=> inLast'.requestAck)
    /\ inLast'.totalFrags # inMsg.totalFrags => inAck' = NoAck

\* C25: every ACK sendAck() produces reports the receiver's current
\* firstMissingFrag and a stagingVector whose bit i is set iff ring slot i is
\* occupied, that is iff fragment firstMissingFrag + 1 + i was received and
\* staged; an ACK is emitted at once for every DATA fragment of the message
\* that has requestAck set.
C25_AckContents == []AckReports /\ [][AckOnRequest]_vars

\* The ACK for fragment 3, staged in slot 1 behind the missing fragment 1.
C25_Witness ==
    /\ inArrived = <<0, 3>>
    /\ inLast.requestAck
    /\ inAck = [firstMissingFrag |-> 1, stagingVector |-> 2]

(***************************************************************************)
(* Claims about send() and processReceivedAck() of one OutboundMessage     *)
(* (checked under SpecOut).                                                *)
(***************************************************************************)
\* The messages send() can be called on now: the message as it is (by its
\* timer, or by a channel that received an extraneous packet) and the message
\* after each ACK processReceivedAck can be handed.
SendCalls ==
    IF outMsg.sendBuffer = NoBuffer THEN {}
    ELSE {outMsg} \cup {OutboundApplyAck(outMsg, a) : a \in outAcks}

\* packetsSinceAckReq when the k-th fragment of sent is handed to sendOneData.
RECURSIVE CounterAt(_, _, _)
CounterAt(m, sent, k) ==
    IF k = 1 THEN m.packetsSinceAckReq
    ELSE IF sent[k - 1][2] THEN 0 ELSE CounterAt(m, sent, k - 1) + 1

\* What one call of send() on m at time t transmits.
SendCallOk(m, t) ==
    LET sent == OutboundSend(m, t).sent
        SentTime(k) == m.sentTimes[sent[k][1] - m.firstMissingFrag + 1]
        retransmits == {k \in DOMAIN sent : SentTime(k) # 0}
    IN  /\ Cardinality(retransmits) <= 1
        /\ \A k \in retransmits : k = Len(sent)
        /\ \A k \in retransmits :
               /\ SentTime(k) # ACKED
               /\ SentTime(k) + TIMEOUT_NS < t
               /\ sent[k][2]
        /\ \A k \in DOMAIN sent \ retransmits :
               sent[k][2] <=> /\ CounterAt(m, sent, k) = REQ_ACK_AFTER - 1
                              /\ sent[k][1] # m.totalFrags - 1
        /\ \A k, j \in DOMAIN sent : k < j => sent[k][1] < sent[j][1]

\* C26: one call of send() retransmits at most one fragment and stops right
\* after it, never resends a fragment whose last send is still within
\* TIMEOUT_NS, sets requestAck on every retransmission, and sets requestAck on
\* a fresh fragment iff packetsSinceAckReq == REQ_ACK_AFTER - 1 and the
\* fragment is not the final one.
C26_SendOnce == \A m \in SendCalls : SendCallOk(m, outNow)

\* The timer's send() retransmitted the first of two timed-out fragments and
\* left the second for the next call.
C26_Witness ==
    /\ outEra = 0
    /\ outNow = 3
    /\ Len(outLast) = 1
    /\ outLast[1][2]
    /\ outMsg.sentTimes[1] = 3
    /\ outMsg.sentTimes[2] = 1

\* The AckResponses a datagram can carry to a message of SpecOut, well formed
\* or not.
AnyAck ==
    [firstMissingFrag : 0..(OutMaxFrags + 1),
     stagingVector : 0..(Pow2(SentTimesLength - 1) - 1)]

StaleAck(m, a) == a.firstMissingFrag < m.firstMissingFrag
MalformedAck(m, a) ==
    \/ a.firstMissingFrag > m.totalFrags
    \/ a.firstMissingFrag > m.firstMissingFrag + Len(m.sentTimes)

\* processReceivedAck on the message being sent, for a stale or malformed
\* ACK: nothing is applied, send() runs, and the value returned is
\* firstMissingFrag == totalFrags.
AckDropped ==
    outMsg.sendBuffer # NoBuffer =>
        \A a \in AnyAck :
            (StaleAck(outMsg, a) \/ MalformedAck(outMsg, a)) =>
                LET applied == OutboundApplyAck(outMsg, a)
                    r == OutboundProcessReceivedAck(outMsg, a, outNow)
                    s == OutboundSend(outMsg, outNow)
                IN  /\ applied.firstMissingFrag = outMsg.firstMissingFrag
                    /\ applied.numAcked = outMsg.numAcked
                    /\ applied.sentTimes = outMsg.sentTimes
                    /\ r.msg = s.msg
                    /\ r.sent = s.sent
                    /\ r.complete = (outMsg.firstMissingFrag = outMsg.totalFrags)

\* firstMissingFrag of the message does not decrease while it is being sent.
NoStepBack ==
    (outMsg.sendBuffer # NoBuffer /\ outMsg'.sendBuffer # NoBuffer /\ outEra' = outEra)
        => outMsg'.firstMissingFrag >= outMsg.firstMissingFrag

\* C27: processReceivedAck leaves firstMissingFrag, numAcked and sentTimes
\* as they were for a stale ACK (ack.firstMissingFrag < firstMissingFrag) and
\* for a malformed one (ack.firstMissingFrag > totalFrags or beyond the
\* sentTimes ring), calls send() all the same and returns
\* firstMissingFrag == totalFrags; firstMissingFrag of an OutboundMessage never
\* decreases between beginSending and clear.
C27_AckIgnored == []AckDropped /\ [][NoStepBack]_vars

\* An ACK of the message's first start, which the receiver completed, is on
\* its way to the message started again: it is beyond the sentTimes ring.
C27_Witness ==
    /\ outEra = 1
    /\ outMsg.sendBuffer # NoBuffer
    /\ outMsg.firstMissingFrag = 0
    /\ \E a \in outAcks : MalformedAck(outMsg, a) /\ a.firstMissingFrag = outMsg.totalFrags

(***************************************************************************)
(* Claims about ServerSession::processInboundPacket (checked under Spec).  *)
(***************************************************************************)
PayloadTypes == {"DATA", "ACK", "SESSION_OPEN", "BAD_SESSION"}

\* The datagrams a server channel with rpcId id may be handed: every
\* CLIENT_TO_SERVER datagram sent so far, with every payload type, for the
\* channels 0..NUM_CHANNELS_PER_SESSION, and with the rpcId before the
\* channel's, the channel's, the next and the one after.
PacketsFor(id) ==
    {[p EXCEPT !.payloadType = t, !.channelId = c, !.rpcId = (id + d) % RpcIdModulus] :
        p \in {q \in net : q.direction = "CLIENT_TO_SERVER"},
        t \in PayloadTypes,
        c \in 0..NUM_CHANNELS_PER_SESSION,
        d \in {RpcIdModulus - 1, 0, 1, 2}}

\* The cases the claim lists as dropped.
ServerDrops(ch, pkt) ==
    \/ pkt.rpcId # ch.rpcId /\ pkt.rpcId # NextRpcId(ch.rpcId)
    \/ pkt.rpcId = NextRpcId(ch.rpcId) /\ pkt.payloadType # "DATA"
    \/ pkt.rpcId = ch.rpcId /\ pkt.payloadType \notin {"DATA", "ACK"}
    \/ pkt.rpcId = ch.rpcId /\ pkt.payloadType = "ACK" /\ ch.state # "SENDING_WAITING"

ServerPacketOk(s, pkt) ==
    LET r == ServerProcessInboundPacket(s, serverReadyQueue, pkt, now)
    IN  IF pkt.channelId >= NUM_CHANNELS_PER_SESSION
        THEN /\ r.session.channels = s.channels
             /\ r.queue = serverReadyQueue
             /\ r.out = {}
        ELSE LET ch == s.channels[pkt.channelId + 1]
                 ch2 == r.session.channels[pkt.channelId + 1]
                 starts == pkt.payloadType = "DATA" /\ pkt.rpcId = NextRpcId(ch.rpcId)
             IN  /\ ServerDrops(ch, pkt) =>
                        /\ r.session.channels = s.channels
                        /\ r.queue = serverReadyQueue
                        /\ r.out = {}
                 /\ starts =>
                        /\ ch2.rpcId = pkt.rpcId
                        /\ ch2.currentRpc.id = <<s.token, pkt.channelId, pkt.rpcId>>
                        /\ ch2.state \in {"RECEIVING", "PROCESSING"}
                        /\ ch2.inboundMsg.totalFrags = pkt.totalFrags
                        /\ ch2.outboundMsg = OutboundClear(ch.outboundMsg)
                 /\ ~starts =>
                        /\ ch2.rpcId = ch.rpcId
                        /\ ch2.currentRpc.id = ch.currentRpc.id

\* C28: a ServerSession starts a new RPC on a channel only for a DATA packet
\* with header.rpcId == channel.rpcId + 1 (modulo the width of rpcId, so a
\* fresh channel, at ~0, accepts rpcId 0); a packet whose rpcId is neither the
\* channel's nor the next, a packet with rpcId + 1 that is not DATA, a packet
\* with channelId >= NUM_CHANNELS_PER_SESSION and an ACK outside
\* SENDING_WAITING are dropped: the channel's state, rpcId, current RPC and
\* messages stay as they were.
C28_NextRpcOnly ==
    /\ NextRpcId(RpcIdNone) = 0
    /\ \A i \in DOMAIN serverSessions.sessions :
           LET s == serverSessions.sessions[i]
           IN  \A c \in 1..NUM_CHANNELS_PER_SESSION :
                   \A pkt \in PacketsFor(s.channels[c].rpcId) : ServerPacketOk(s, pkt)

\* A channel that started at ~0 has accepted rpcId 0 and then rpcId 1, the
\* DATA of rpcId 0 can still arrive, and a fresh channel exists beside it.
C28_Witness ==
    /\ Len(serverSessions.sessions) = 2
    /\ serverSessions.sessions[2].channels[1].rpcId = RpcIdNone
    /\ LET s == serverSessions.sessions[1]
       IN  /\ s.channels[1].rpcId = 1
           /\ s.channels[1].state = "PROCESSING"
           /\ s.channels[1].currentRpc.id = <<s.token, 0, 1>>
           /\ \E p \in net : /\ p.direction = "CLIENT_TO_SERVER"
                             /\ p.payloadType = "DATA"
                             /\ p.rpcId = 0
                             /\ p.sessionToken = s.token

\* The DATA datagrams of its current RPC that channel c of session s may be
\* handed: those sent so far, with and without requestAck.
CurrentRpcData(s, c) ==
    {[p EXCEPT !.requestAck = ra] :
        p \in {q \in net : /\ q.direction = "CLIENT_TO_SERVER"
                           /\ q.payloadType = "DATA"
                           /\ q.channelId = c - 1
                           /\ q.rpcId = s.channels[c].rpcId},
        ra \in BOOLEAN}

\* The ACK of the channel for the request it holds complete.
IsAckOf(p, s, c) ==
    /\ p.direction = "SERVER_TO_CLIENT"
    /\ p.payloadType = "ACK"
    /\ p.sessionToken = s.token
    /\ p.clientSessionHint = s.clientSessionHint
    /\ p.serverSessionHint = s.id
    /\ p.channelId = c - 1
    /\ p.rpcId = s.channels[c].rpcId
    /\ p.ack = [firstMissingFrag |-> s.channels[c].inboundMsg.totalFrags,
                stagingVector |-> 0]

\* C29: a server channel in PROCESSING that receives a DATA fragment of its
\* current RPC sends an ACK iff the fragment has requestAck set, and either
\* way its state, the reassembled request and the ready queue stay as they
\* were; the RPC is not enqueued a second time.
C29_ProcessingData ==
    \A i \in DOMAIN serverSessions.sessions :
        LET s == serverSessions.sessions[i]
        IN  \A c \in 1..NUM_CHANNELS_PER_SESSION :
                s.channels[c].state = "PROCESSING" =>
                    \A pkt \in CurrentRpcData(s, c) :
                        LET r == ServerProcessInboundPacket(s, serverReadyQueue, pkt, now)
                        IN  /\ r.session.channels = s.channels
                            /\ r.queue = serverReadyQueue
                            /\ pkt.requestAck =>
                                   /\ Cardinality(r.out) = 1
                                   /\ \A p \in r.out : IsAckOf(p, s, c)
                            /\ ~pkt.requestAck => r.out = {}

\* A retransmitted fragment (requestAck set) can reach the channel that holds
\* the complete request, which is queued once, and the ACK was sent.
C29_Witness ==
    \E i \in DOMAIN serverSessions.sessions :
        LET s == serverSessions.sessions[i]
        IN  /\ s.channels[1].state = "PROCESSING"
            /\ serverReadyQueue = <<s.channels[1].currentRpc.id>>
            /\ \E pkt \in CurrentRpcData(s, 1) :
                   pkt \in net /\ pkt.requestAck /\ pkt.sessionToken = s.token
            /\ \E p \in net : IsAckOf(p, s, 1)

(***************************************************************************)
(* Claims about ClientSession::processSessionOpenResponse (checked under   *)
(* Spec).                                                                  *)
(***************************************************************************)
\* The SESSION_OPEN responses a client session may be handed: those sent so
\* far, offering 1 to MAX_NUM_CHANNELS_PER_SESSION + 1 channels, on any
\* channelId (below numChannels the packet goes to the channel, which drops
\* it; otherwise to processSessionOpenResponse).
SessionOpenResponses ==
    {[p EXCEPT !.maxChannelId = k, !.channelId = c] :
        p \in {q \in net : /\ q.direction = "SERVER_TO_CLIENT"
                           /\ q.payloadType = "SESSION_OPEN"},
        k \in 0..MAX_NUM_CHANNELS_PER_SESSION,
        c \in 0..MAX_NUM_CHANNELS_PER_SESSION}

\* A connected session ignores the response.
OpenIgnored(s, pkt) ==
    LET r == ClientProcessInboundPacket(s, rpcs, pkt, now)
    IN  /\ r.session = s
        /\ r.rpcs = rpcs
        /\ r.out = {}

\* An unconnected session takes hint and token, gets its channels and starts
\* the first queued RPCs on channels 0, 1, ... in queue order.
OpenAccepted(s, pkt) ==
    LET r == ClientProcessInboundPacket(s, rpcs, pkt, now)
        n == Min(pkt.maxChannelId + 1, MAX_NUM_CHANNELS_PER_SESSION)
        k == Min(n, Len(s.channelQueue))
        s2 == r.session
    IN  /\ s2.token = pkt.sessionToken
        /\ s2.serverSessionHint = pkt.serverSessionHint
        /\ s2.numChannels = n
        /\ Len(s2.channels) = n
        /\ s2.channelQueue = SubSeq(s.channelQueue, k + 1, Len(s.channelQueue))
        /\ \A j \in 1..k :
               /\ s2.channels[j].state = "SENDING"
               /\ s2.channels[j].currentRpc = s.channelQueue[j]
               /\ s2.channels[j].rpcId = 0
               /\ s2.channels[j].outboundMsg.sendBuffer
                      = rpcs[s.channelQueue[j]].requestBuffer
               /\ \E p \in r.out :
                      /\ p.payloadType = "DATA"
                      /\ p.channelId = j - 1
                      /\ p.sessionToken = pkt.sessionToken
                      /\ p.serverSessionHint = pkt.serverSessionHint
                      /\ p.payload = rpcs[s.channelQueue[j]].requestBuffer[1]
        /\ \A j \in (k + 1)..n :
               /\ s2.channels[j].state = "IDLE"
               /\ s2.channels[j].currentRpc = NoRpc
        /\ r.rpcs = rpcs
        /\ \A p \in r.out : p.payloadType = "DATA" /\ p.channelId < k

\* C30: processSessionOpenResponse is idempotent: on a session that is
\* connected (numChannels > 0) a further SESSION_OPEN response changes neither
\* token, serverSessionHint, channels nor queue; on an unconnected session it
\* records hint and token, allocates
\* min(maxChannelId + 1, MAX_NUM_CHANNELS_PER_SESSION) channels and assigns the
\* queued RPCs to channels 0, 1, ... in queue order until channels or queue
\* run out.
C30_SessionOpenOnce ==
    \A i \in DOMAIN clientSessions : \A pkt \in SessionOpenResponses :
        IF clientSessions[i].numChannels > 0
        THEN OpenIgnored(clientSessions[i], pkt)
        ELSE OpenAccepted(clientSessions[i], pkt)

\* The session connected under token 1 with two RPCs queued and one channel:
\* RPC 1 is on channel 0, RPC 2 still queued, and the response of a second
\* server session (token 2) can arrive.
C30_Witness ==
    /\ clientSessions # <<>>
    /\ clientSessions[1].numChannels = 1
    /\ clientSessions[1].token = 1
    /\ clientSessions[1].channels[1].currentRpc = 1
    /\ clientSessions[1].channelQueue = <<2>>
    /\ \E p \in SessionOpenResponses : p \in net /\ p.sessionToken = 2

(***************************************************************************)
(* SpecTimers: FastTransport::timerList holding the timers of the channels *)
(* of client sessions.  Timer t is the scheduled timer (of the inbound or  *)
(* of the outbound message, never both at once) of channel                 *)
(* (t - 1) % MAX_NUM_CHANNELS_PER_SESSION of client session                *)
(* (t - 1) \div MAX_NUM_CHANNELS_PER_SESSION.                              *)
(***************************************************************************)
MaxTimers == 3
TimerMaxNow == 3
Timers == 1..MaxTimers
NoTimer == 0

TimerSession(t) == (t - 1) \div MAX_NUM_CHANNELS_PER_SESSION

\* LIST_IS_IN(timer, listEntries)
ListIsIn(list, t) == \E i \in DOMAIN list : list[i] = t

\* LIST_NEXT(timer, listEntries); NoTimer at the end of the list.
ListNext(list, t) ==
    IF \E i \in DOMAIN list : list[i] = t /\ i < Len(list)
    THEN list[(CHOOSE i \in DOMAIN list : list[i] = t /\ i < Len(list)) + 1]
    ELSE NoTimer

\* LIST_REMOVE(timer, listEntries)
ListRemove(list, t) ==
    LET i == CHOOSE j \in DOMAIN list : list[j] = t
    IN  SubSeq(list, 1, i - 1) \o SubSeq(list, i + 1, Len(list))

\* The timer list during a call: the list, each Timer's when, the timers
\* fired by this fireTimers(), the Timers whose memory was given back
\* (delete[] channels) and the le_next they were unlinked with.
TimerState(list, when, fired) ==
    [list |-> list, when |-> when, fired |-> fired, freed |-> {},
     stale |-> [t \in Timers |-> NoTimer]]

\* FastTransport::addTimer
TimerAdd(st, t, when) ==
    [st EXCEPT !.when[t] = when,
               !.list = IF ListIsIn(st.list, t) THEN @ ELSE <<t>> \o @]

\* FastTransport::removeTimer
TimerRemove(st, t) ==
    [st EXCEPT !.when[t] = 0,
               !.stale[t] = IF ListIsIn(st.list, t) THEN ListNext(st.list, t) ELSE @,
               !.list = IF ListIsIn(st.list, t) THEN ListRemove(@, t) ELSE @]

\* ClientSession::close() as the timer list sees it: clearChannels() deletes
\* the channels, the messages' clear() deschedules their timers, and the
\* memory of every Timer of the session is given back.
RECURSIVE TimerClearChannels(_, _, _)
TimerClearChannels(st, session, t) ==
    IF t > MaxTimers THEN st
    ELSE IF TimerSession(t) = session
         THEN TimerClearChannels([TimerRemove(st, t) EXCEPT !.freed = @ \cup {t}],
                                 session, t + 1)
         ELSE TimerClearChannels(st, session, t + 1)

\* What Timer::fireTimer() does to the timer list: nothing (send() found no
\* fragment in flight), schedule itself again at now + TIMEOUT_NS (the
\* inbound timer after its ACK, send() after a retransmission), schedule
\* itself again at a deadline already reached (send() with a second fragment
\* as old as the retransmitted one), or close the session (numTimeouts at
\* TIMEOUTS_UNTIL_ABORTING).
TimerEffects == {"none", "later", "due", "close"}

FireTimer(st, t, effect, due, tsc) ==
    CASE effect = "none" -> st
      [] effect = "later" -> TimerAdd(st, t, tsc + TIMEOUT_NS)
      [] effect = "due" -> TimerAdd(st, t, due)
      [] effect = "close" -> TimerClearChannels(st, TimerSession(t), 1)

\* What fireTimers() can do when LIST_FOREACH_SAFE continues with a Timer
\* whose memory was given back by the action of the timer before it: end the
\* sweep, go on with the le_next left in the memory, or call fireTimer() on it.
FreedOutcomes == {"stop", "follow", "fire"}

\* The body of LIST_FOREACH_SAFE in FastTransport::fireTimers, from timer on.
RECURSIVE FireLoop(_, _, _, _, _)
FireLoop(st, timer, effects, freedOutcome, tsc) ==
    IF timer = NoTimer THEN st
    ELSE IF timer \in st.freed
    THEN CASE freedOutcome = "stop" -> st
           [] freedOutcome = "follow" ->
                  FireLoop([st EXCEPT !.freed = @ \ {timer}], st.stale[timer],
                           effects, freedOutcome, tsc)
           [] freedOutcome = "fire" -> [st EXCEPT !.fired = Append(@, timer)]
    ELSE LET tmp == ListNext(st.list, timer)
         IN  IF st.when[timer] # 0 /\ st.when[timer] <= tsc
             THEN LET removed == TimerRemove(st, timer)
                      fired == [removed EXCEPT !.fired = Append(@, timer)]
                  IN  FireLoop(FireTimer(fired, timer, effects[timer],
                                         st.when[timer], tsc),
                               tmp, effects, freedOutcome, tsc)
             ELSE FireLoop(st, tmp, effects, freedOutcome, tsc)

TimerInit ==
    /\ timerList = <<>>
    /\ timerWhen = [t \in Timers |-> 0]
    /\ timerNow = 1
    /\ timerFired = <<>>
    /\ InIdle
    /\ OutIdle
    /\ SysInit

\* rdtsc() moves on.
TimerTick ==
    /\ timerNow < TimerMaxNow
    /\ timerNow' = timerNow + 1
    /\ UNCHANGED <<timerList, timerWhen, timerFired>>
    /\ UNCHANGED <<inVars, outVars, sysVars>>

\* A message schedules its timer: init() and processReceivedData() at
\* now + TIMEOUT_NS, send() at TIMEOUT_NS after the oldest fragment in flight.
AddTimer(t, when) ==
    LET st == TimerAdd(TimerState(timerList, timerWhen, timerFired), t, when)
    IN  /\ timerList' = st.list
        /\ timerWhen' = st.when
        /\ UNCHANGED <<timerNow, timerFired>>
        /\ UNCHANGED <<inVars, outVars, sysVars>>

\* A message's clear() deschedules its timer.
RemoveTimer(t) ==
    LET st == TimerRemove(TimerState(timerList, timerWhen, timerFired), t)
    IN  /\ timerList' = st.list
        /\ timerWhen' = st.when
        /\ UNCHANGED <<timerNow, timerFired>>
        /\ UNCHANGED <<inVars, outVars, sysVars>>

\* The timers that are scheduled and whose deadline is reached.
DueTimers == {t \in Timers : /\ ListIsIn(timerList, t)
                             /\ timerWhen[t] # 0
                             /\ timerWhen[t] <= timerNow}

\* poll() calls fireTimers().
FireTimers ==
    \E effects \in [DueTimers -> TimerEffects], freedOutcome \in FreedOutcomes :
        LET first == IF timerList = <<>> THEN NoTimer ELSE Head(timerList)
            st == FireLoop(TimerState(timerList, timerWhen, <<>>), first,
                           effects, freedOutcome, timerNow)
        IN  /\ timerList' = st.list
            /\ timerWhen' = st.when
            /\ timerFired' = st.fired
            /\ UNCHANGED timerNow
            /\ UNCHANGED <<inVars, outVars, sysVars>>

TimerNext ==
    \/ TimerTick
    \/ \E t \in Timers, w \in (1 + TIMEOUT_NS)..(timerNow + TIMEOUT_NS) : AddTimer(t, w)
    \/ \E t \in Timers : RemoveTimer(t)
    \/ FireTimers

SpecTimers == TimerInit /\ [][TimerNext]_vars

\* No Timer is in the list twice.
ListedOnce ==
    \A i, j \in DOMAIN timerList : timerList[i] = timerList[j] => i = j

\* A fireTimers() fires the due timers, each once, and leaves the others as
\* they are.
SweepFiresDue ==
    FireTimers =>
        /\ Range(timerFired') = DueTimers
        /\ \A i, j \in DOMAIN timerFired' : timerFired'[i] = timerFired'[j] => i = j
        /\ \A t \in Timers :
               ListIsIn(timerList, t) /\ timerWhen[t] > timerNow =>
                   /\ ListIsIn(timerList', t)
                   /\ timerWhen'[t] = timerWhen[t]

\* C31: a Timer is in the timer list at most once; fireTimers() fires exactly
\* the scheduled timers with when <= now, each once, and the timers with
\* when > now stay scheduled and unchanged.
C31_TimerList == []ListedOnce /\ [][SweepFiresDue]_vars

(***************************************************************************)
(* Claims about the ServerRpcs handed to the server (checked under Spec).  *)
(***************************************************************************)
\* The ServerRpc named id is the currentRpc of a channel in PROCESSING.
HeldInProcessing(id) ==
    \E h \in ServerRpcHolders(id) :
        serverSessions.sessions[h[1] + 1].channels[h[2] + 1].state = "PROCESSING"

\* C32: every ServerRpc on serverReadyQueue, and every ServerRpc serverRecv()
\* returned that was not replied to yet, is the currentRpc of a server channel
\* in PROCESSING: neither a DATA packet with rpcId + 1 nor
\* ServerSession::expire() deletes or replaces it.
C32_NoDanglingRpc ==
    /\ \A i \in DOMAIN serverReadyQueue : HeldInProcessing(serverReadyQueue[i])
    /\ \A id \in serving : HeldInProcessing(id)

(***************************************************************************)
(* SpecClient: one ClientSession that is handed every SERVER_TO_CLIENT     *)
(* datagram a server could have sent, in any order and any number of       *)
(* times: SESSION_OPEN responses offering 1 to MAX_NUM_CHANNELS_PER_SESSION *)
(* channels, BAD_SESSION and the first DATA fragment of a response.         *)
(***************************************************************************)
HeardHeader(payloadType, token, rpcId, channelId) ==
    Header("SERVER_TO_CLIENT", payloadType, token, rpcId, 0, 0, channelId)

HeardPackets ==
    LET ids == 0..(MaxRpcs - 1)
        chans == 0..(MAX_NUM_CHANNELS_PER_SESSION - 1)
    IN  {[HeardHeader("SESSION_OPEN", 1, 0, 0) EXCEPT !.maxChannelId = k] : k \in chans}
        \cup {HeardHeader("BAD_SESSION", INVALID_TOKEN, i, c) : i \in ids, c \in chans}
        \cup {[HeardHeader("DATA", 1, i, c) EXCEPT !.totalFrags = n,
                                                   !.payload = Payload(1, 1, 0)] :
                 i \in ids, c \in chans, n \in 1..MaxFrags}

\* tryProcessPacket() on a SERVER_TO_CLIENT datagram for the session.
ClientHear(pkt) ==
    /\ pkt.clientSessionHint < Len(clientSessions)
    /\ LET r == ClientProcessInboundPacket(clientSessions[pkt.clientSessionHint + 1],
                                           rpcs, pkt, now)
       IN  /\ \A q \in 1..MaxRpcs : Len(r.rpcs[q].responseBuffer) <= MaxResponseLen
           /\ clientSessions' = [clientSessions EXCEPT
                                    ![pkt.clientSessionHint + 1] = r.session]
           /\ rpcs' = r.rpcs
           /\ net' = net \cup r.out
    /\ UNCHANGED unitVars
    /\ UNCHANGED <<now, replied, serverSessions, serverReadyQueue, serving, tokens>>

ClientNext ==
    \/ Tick
    \/ \E r \in 1..MaxRpcs, n \in 1..MaxFrags : ClientSend(r, n)
    \/ \E pkt \in HeardPackets : ClientHear(pkt)
    \/ \E c \in 0..(MAX_NUM_CHANNELS_PER_SESSION - 1) : FireInboundTimer(c)
    \/ \E c \in 0..(MAX_NUM_CHANNELS_PER_SESSION - 1) : FireOutboundTimer(c)

SpecClient == Init /\ [][ClientNext]_vars

\* In how many places ClientRpc r is held: as the currentRpc of a channel or
\* as an entry of a channelQueue.
Holdings(r) ==
    Cardinality({<<i, c>> \in (DOMAIN clientSessions) \X (1..MAX_NUM_CHANNELS_PER_SESSION) :
                    /\ c <= clientSessions[i].numChannels
                    /\ clientSessions[i].channels[c].currentRpc = r})
    + Cardinality({<<i, k>> \in (DOMAIN clientSessions) \X (1..MaxRpcs) :
                    /\ k <= Len(clientSessions[i].channelQueue)
                    /\ clientSessions[i].channelQueue[k] = r})

\* C33: every IN_PROGRESS ClientRpc is held in exactly one place: it is the
\* currentRpc of exactly one channel of its session or appears exactly once in
\* the session's channelQueue, never both and never twice.
C33_HeldOnce ==
    \A r \in 1..MaxRpcs : rpcs[r].state = "IN_PROGRESS" => Holdings(r) = 1

\* After a BAD_SESSION and a new SESSION_OPEN response offering two channels,
\* both RPCs are in progress, one on each channel.
C33_Witness ==
    /\ clientSessions # <<>>
    /\ clientSessions[1].numChannels = MAX_NUM_CHANNELS_PER_SESSION
    /\ clientSessions[1].channels[1].currentRpc = MaxRpcs
    /\ clientSessions[1].channels[MAX_NUM_CHANNELS_PER_SESSION].currentRpc = 1
    /\ \A r \in 1..MaxRpcs : rpcs[r].state = "IN_PROGRESS"

(***************************************************************************)
(* Claims about the sender and its receiver together (checked under        *)
(* SpecOut).                                                               *)
(***************************************************************************)
\* C34: for a message in flight the OutboundMessage's firstMissingFrag is at
\* most the firstMissingFrag of the InboundMessage it is sent to, and send()
\* transmits no fragment more than MAX_STAGING_FRAGMENTS beyond the receiver's
\* firstMissingFrag, whatever DATA and ACK packets are lost, duplicated or
\* reordered.
C34_SenderBehind ==
    outMsg.sendBuffer # NoBuffer =>
        /\ outMsg.firstMissingFrag <= outPeer.firstMissingFrag
        /\ \A f \in LastSent : f <= outPeer.firstMissingFrag + MAX_STAGING_FRAGMENTS

(***************************************************************************)
(* Claims about the channels of a ClientSession (checked under SpecClient). *)
(***************************************************************************)
\* C35: in a connected ClientSession (numChannels > 0) no channel is IDLE
\* while channelQueue is non-empty, and every channel that is not IDLE has a
\* currentRpc, which is IN_PROGRESS.
C35_NoIdleWhileQueued ==
    \A i \in DOMAIN clientSessions :
        LET s == clientSessions[i]
        IN  s.numChannels > 0 =>
                /\ s.channelQueue # <<>> =>
                       \A c \in 1..s.numChannels : s.channels[c].state # "IDLE"
                /\ \A c \in 1..s.numChannels :
                       s.channels[c].state # "IDLE" =>
                           /\ s.channels[c].currentRpc # NoRpc
                           /\ rpcs[s.channels[c].currentRpc].state = "IN_PROGRESS"

\* One channel, RECEIVING the response of RPC 1, while RPC 2 waits on the
\* queue.
C35_Witness ==
    /\ clientSessions # <<>>
    /\ clientSessions[1].numChannels = 1
    /\ clientSessions[1].channels[1].state = "RECEIVING"
    /\ clientSessions[1].channels[1].currentRpc = 1
    /\ clientSessions[1].channelQueue = <<MaxRpcs>>

(***************************************************************************)
(* Claims about the table of server sessions (checked under Spec).         *)
(***************************************************************************)
\* No slot is on the free list twice.
SlotsFreeOnce(table) ==
    \A i, j \in DOMAIN table.free : table.free[i] = table.free[j] => i = j

\* The session get() returned is not in use.
SlotUnused(g) ==
    LET s == g.table.sessions[g.slot + 1]
    IN  /\ s.token = INVALID_TOKEN
        /\ \A c \in 1..NUM_CHANNELS_PER_SESSION : s.channels[c].state = "IDLE"

====
